---- MODULE Spec2Model ----
(***************************************************************************)
(* A model of the HAR analyzer: the uploader's file list, the page's       *)
(* handleAnalyze (parseHarFile per file, then analyzeHarFiles), and the    *)
(* UX timeline view (analyzeUXTimeline) of the selected region.            *)
(*                                                                         *)
(* Numbers are milliseconds, modelled as integers (Math.round is then the  *)
(* identity).  A HAR field that may be absent is a sequence of length 0    *)
(* (absent) or 1 (present).  A MIME type is the set of the keywords the    *)
(* code looks for that it contains; a URL is a record of its origin+path,  *)
(* the extension its path ends with, and its query string.                 *)
(***************************************************************************)
EXTENDS Integers, Sequences, FiniteSets, TLC

VARIABLES
    files,          \* HarUploader: the list of [content, regionName]
    pc,             \* Home.handleAnalyze: "idle" or "parsing"
    regions,        \* handleAnalyze's local list of parsed regions
    isLoading,      \* Home state
    error,          \* Home state: <<>> or <<message>>
    result,         \* Home state: <<>> or <<AnalysisResult>>
    selectedRegion, \* Home state: <<>> or <<region name>>
    timeline        \* UXTimeline: <<>> or <<UXTimelineResult>> of the current region

vars == <<files, pc, regions, isLoading, error, result, selectedRegion, timeline>>

(***************************************************************************)
(* Bounds of the model                                                     *)
(***************************************************************************)
\* Files in the uploader's list, in the specifications about several regions
MaxFiles == 2

\* Files in the list, in the specifications about single requests
SingleFile == 1

\* Entries of one capture
MaxEntries == 2

\* The largest number of files of a batch in which regions tie
TieFiles == 3

(***************************************************************************)
(* Sequence helpers (Array.prototype.map / filter / sort / find)           *)
(***************************************************************************)
Range(s) == {s[i] : i \in DOMAIN s}

MaxOfSet(S) == CHOOSE x \in S : \A y \in S : y <= x

MinOfSet(S) == CHOOSE x \in S : \A y \in S : x <= y

\* Math.max(...[]) is -Infinity: a value below every modelled number.
NegInfinity == 0 - 1000000000

PosInfinity == 1000000000

MathMax(s) == IF s = <<>> THEN NegInfinity ELSE MaxOfSet(Range(s))

MathMin(s) == IF s = <<>> THEN PosInfinity ELSE MinOfSet(Range(s))

\* reduce((sum, x) => sum + x, 0), summed by halves
RECURSIVE SumRange(_, _, _)
SumRange(s, lo, hi) ==
    IF lo > hi THEN 0
    ELSE IF lo = hi THEN s[lo]
    ELSE LET mid == (lo + hi) \div 2
         IN  SumRange(s, lo, mid) + SumRange(s, mid + 1, hi)

SumSeq(s) == SumRange(s, 1, Len(s))

\* flatMap: the concatenation of the sequences of ss, by halves
RECURSIVE ConcatRange(_, _, _)
ConcatRange(ss, lo, hi) ==
    IF lo > hi THEN <<>>
    ELSE IF lo = hi THEN ss[lo]
    ELSE LET mid == (lo + hi) \div 2
         IN  ConcatRange(ss, lo, mid) \o ConcatRange(ss, mid + 1, hi)

FlatMap(ss) == ConcatRange(ss, 1, Len(ss))

\* An array built element by element (map, sort), as a sequence value
AsSeq(f) == SubSeq(f, 1, Len(f))

\* Array.prototype.sort is stable: the place of element i under a
\* descending comparator (b.key - a.key) on the keys.
RankDesc(keys, i) ==
    1 + Cardinality({j \in DOMAIN keys :
                        keys[j] > keys[i] \/ (keys[j] = keys[i] /\ j < i)})

RankAsc(keys, i) ==
    1 + Cardinality({j \in DOMAIN keys :
                        keys[j] < keys[i] \/ (keys[j] = keys[i] /\ j < i)})

\* The permutation a sort applies: result[p] = input[SortDescIdx(keys)[p]].
SortDescIdx(keys) ==
    LET rank == AsSeq([i \in DOMAIN keys |-> RankDesc(keys, i)])
    IN  AsSeq([p \in DOMAIN keys |-> CHOOSE i \in DOMAIN keys : rank[i] = p])

SortAscIdx(keys) ==
    LET rank == AsSeq([i \in DOMAIN keys |-> RankAsc(keys, i)])
    IN  AsSeq([p \in DOMAIN keys |-> CHOOSE i \in DOMAIN keys : rank[i] = p])

Permute(s, idx) == AsSeq([p \in DOMAIN s |-> s[idx[p]]])

\* Array.prototype.slice(0, n)
Slice(s, n) == IF Len(s) <= n THEN s ELSE SubSeq(s, 1, n)

\* Array.prototype.find: <<>> (undefined) or <<the first element satisfying P>>
FirstIdx(s, P(_)) ==
    IF \E i \in DOMAIN s : P(s[i])
    THEN <<CHOOSE i \in DOMAIN s : P(s[i]) /\ \A j \in 1..(i-1) : ~P(s[j])>>
    ELSE <<>>

\* [...new Set(s)]: the distinct elements in order of first occurrence
Distinct(s) ==
    LET keep == SelectSeq([i \in DOMAIN s |-> i],
                          LAMBDA i : \A j \in 1..(i-1) : s[j] # s[i])
    IN  AsSeq([p \in DOMAIN keep |-> s[keep[p]]])

(***************************************************************************)
(* harParser.ts                                                            *)
(***************************************************************************)
THRESHOLDS ==
    [api        |-> [warning |-> 500,  critical |-> 1000],
     script     |-> [warning |-> 500,  critical |-> 1500],
     stylesheet |-> [warning |-> 500,  critical |-> 1500],
     image      |-> [warning |-> 1000, critical |-> 3000],
     font       |-> [warning |-> 500,  critical |-> 1500],
     document   |-> [warning |-> 1000, critical |-> 3000],
     other      |-> [warning |-> 1000, critical |-> 3000],
     dns        |-> [warning |-> 100,  critical |-> 300],
     connect    |-> [warning |-> 200,  critical |-> 500],
     ssl        |-> [warning |-> 200,  critical |-> 500],
     ttfb       |-> [warning |-> 500,  critical |-> 1500],
     download   |-> [warning |-> 1000, critical |-> 3000]]

RequestTypes ==
    {"xhr", "fetch", "document", "script", "stylesheet",
     "image", "font", "media", "other"}

ImageExts == {"png", "jpg", "jpeg", "gif", "svg", "webp", "ico"}

FontExts == {"woff", "woff2", "ttf", "otf", "eot"}

\* url.endsWith(".x"): the path ends with the extension and nothing follows it
UrlEndsWith(url, ext) == url.ext = ext /\ url.query = ""

\* /\.(png|jpg|...)/.test(url): the pattern is not anchored, so it matches
\* the path's extension (whatever follows it) and as well a "." followed
\* by one of the alternatives anywhere before it, in the host or in a
\* directory name (url.inner: the alternatives that occur so).
UrlMatches(url, exts) == url.ext \in exts \/ url.inner \cap exts # {}

getRequestType(entry) ==
    LET mimeType == entry.mime
        url      == entry.url
    IN  IF entry.xrw = <<"xmlhttprequest">> THEN "xhr"
        ELSE IF "json" \in mimeType \/ "xml" \in mimeType THEN "fetch"
        ELSE IF "html" \in mimeType THEN "document"
        ELSE IF "javascript" \in mimeType \/ UrlEndsWith(url, "js") THEN "script"
        ELSE IF "css" \in mimeType \/ UrlEndsWith(url, "css") THEN "stylesheet"
        ELSE IF "image" \in mimeType \/ UrlMatches(url, ImageExts) THEN "image"
        ELSE IF "font" \in mimeType \/ UrlMatches(url, FontExts) THEN "font"
        ELSE IF "video" \in mimeType \/ "audio" \in mimeType THEN "media"
        ELSE "other"

getSeverityStrict(time, type) ==
    LET thresholdKey == IF type \in {"xhr", "fetch"} THEN "api" ELSE type
        threshold    == IF thresholdKey \in DOMAIN THRESHOLDS
                        THEN THRESHOLDS[thresholdKey] ELSE THRESHOLDS.other
    IN  IF time > threshold.critical THEN "critical"
        ELSE IF time > threshold.warning THEN "warning"
        ELSE "normal"

getSeverity(time, type) ==
    LET thresholdKey == IF type \in {"xhr", "fetch"} THEN "api" ELSE type
        threshold    == IF thresholdKey \in DOMAIN THRESHOLDS
                        THEN THRESHOLDS[thresholdKey] ELSE THRESHOLDS.other
    IN  IF time >= threshold.critical THEN "critical"
        ELSE IF time >= threshold.warning THEN "warning"
        ELSE "normal"

TimingFields == {"blocked", "dns", "connect", "ssl", "send", "wait", "receive"}

\* `t.f && t.f > 0 ? t.f : 0` and `t.f > 0 ? t.f : 0`: an absent field is
\* undefined, which is falsy and for which `undefined > 0` is false.
NormalizeOptional(v) == IF v # <<>> /\ v[1] # 0 /\ v[1] > 0 THEN v[1] ELSE 0

NormalizeRequired(v) == IF v # <<>> /\ v[1] > 0 THEN v[1] ELSE 0

normalizeTimingsNoClamp(timings) ==
    [f \in TimingFields |-> IF timings[f] # <<>> THEN timings[f][1] ELSE 0]

normalizeTimings(timings) ==
    [blocked |-> NormalizeOptional(timings.blocked),
     dns     |-> NormalizeOptional(timings.dns),
     connect |-> NormalizeOptional(timings.connect),
     ssl     |-> NormalizeOptional(timings.ssl),
     send    |-> NormalizeRequired(timings.send),
     wait    |-> NormalizeRequired(timings.wait),
     receive |-> NormalizeRequired(timings.receive)]

analyzeRequestIssuesBlockedInclusive(timings) ==
    (IF timings.dns # 0 /\ timings.dns >= 100
       THEN <<[text |-> "DNS", ms |-> timings.dns]>> ELSE <<>>)
    \o (IF timings.connect # 0 /\ timings.connect >= 200
       THEN <<[text |-> "TCP", ms |-> timings.connect]>> ELSE <<>>)
    \o (IF timings.ssl # 0 /\ timings.ssl >= 200
       THEN <<[text |-> "SSL", ms |-> timings.ssl]>> ELSE <<>>)
    \o (IF timings.wait >= 500
       THEN <<[text |-> "TTFB", ms |-> timings.wait]>> ELSE <<>>)
    \o (IF timings.receive >= 1000
       THEN <<[text |-> "download", ms |-> timings.receive]>> ELSE <<>>)
    \o (IF timings.blocked # 0 /\ timings.blocked >= 100
       THEN <<[text |-> "blocked", ms |-> timings.blocked]>> ELSE <<>>)

\* An issue message is its distinguishing text and the rounded milliseconds.
analyzeRequestIssues(timings) ==
    (IF timings.dns # 0 /\ timings.dns >= THRESHOLDS.dns.warning
       THEN <<[text |-> "DNS", ms |-> timings.dns]>> ELSE <<>>)
    \o (IF timings.connect # 0 /\ timings.connect >= THRESHOLDS.connect.warning
       THEN <<[text |-> "TCP", ms |-> timings.connect]>> ELSE <<>>)
    \o (IF timings.ssl # 0 /\ timings.ssl >= THRESHOLDS.ssl.warning
       THEN <<[text |-> "SSL", ms |-> timings.ssl]>> ELSE <<>>)
    \o (IF timings.wait >= THRESHOLDS.ttfb.warning
       THEN <<[text |-> "TTFB", ms |-> timings.wait]>> ELSE <<>>)
    \o (IF timings.receive >= THRESHOLDS.download.warning
       THEN <<[text |-> "download", ms |-> timings.receive]>> ELSE <<>>)
    \o (IF timings.blocked # 0 /\ timings.blocked > 100
       THEN <<[text |-> "blocked", ms |-> timings.blocked]>> ELSE <<>>)

categorizeIssue(issue) ==
    IF issue.text = "DNS" THEN "slow_dns"
    ELSE IF issue.text = "TCP" THEN "slow_connect"
    ELSE IF issue.text = "SSL" THEN "slow_ssl"
    ELSE IF issue.text = "TTFB" THEN "slow_ttfb"
    ELSE IF issue.text = "download" THEN "slow_download"
    ELSE IF issue.text = "blocked" THEN "blocking"
    ELSE "large_payload"

\* parseHarFile, lines 123-124: the base time is the first entry's start.
BaseTime(entries) == entries[1].started

ParseEntry(entry, index, regionName, baseTime) ==
    LET type    == getRequestType(entry)
        time    == entry.time
        timings == normalizeTimings(entry.timings)
    IN  [id        |-> <<regionName, index - 1>>,
         url       |-> entry.url,
         type      |-> type,
         size      |-> IF entry.bodySize > 0 THEN entry.bodySize
                       ELSE entry.contentSize,
         time      |-> time,
         timings   |-> timings,
         startTime |-> entry.started - baseTime,
         severity  |-> getSeverity(time, type),
         issues    |-> analyzeRequestIssues(timings)]

TotalTimeOfLast(requests) ==
    IF requests = <<>> THEN NegInfinity
    ELSE requests[Len(requests)].startTime + requests[Len(requests)].time

TotalTimeOf(requests) ==
    MathMax([i \in DOMAIN requests |-> requests[i].startTime + requests[i].time])

SlowRequestsOfCritical(requests) ==
    Len(SelectSeq(requests, LAMBDA r : r.severity = "critical"))

\* requests.filter((r) => r.severity !== "normal").length
SlowRequestsOf(requests) ==
    Len(SelectSeq(requests, LAMBDA r : r.severity # "normal"))

FlatIssues(requests) ==
    FlatMap([i \in DOMAIN requests |->
                [k \in DOMAIN requests[i].issues |->
                    [type     |-> categorizeIssue(requests[i].issues[k]),
                     severity |-> requests[i].severity,
                     message  |-> requests[i].issues[k],
                     url      |-> requests[i].url,
                     value    |-> requests[i].time]]])

ParseThrowsUnlessEmptyList(f) == f.form # "har"

\* A file's text is a HAR document with an entry list (form "har", content
\* the list), a JSON document without one ("no entries"), or no JSON at all
\* ("not json"). JSON.parse throws on the last, and parseHarFile throws
\* when the entry list is absent or empty.
ParseThrows(f) == f.form # "har" \/ f.content = <<>>

parseHarFile(content, regionName) ==
    LET entries  == content
        baseTime == BaseTime(entries)
        requests == [i \in DOMAIN entries |->
                        ParseEntry(entries[i], i, regionName, baseTime)]
    IN  [name         |-> regionName,
         requests     |-> requests,
         totalTime    |-> TotalTimeOf(requests),
         totalSize    |-> SumSeq([i \in DOMAIN requests |->
                             IF requests[i].size > 0 THEN requests[i].size ELSE 0]),
         requestCount |-> Len(requests),
         slowRequests |-> SlowRequestsOf(requests),
         issues       |-> FlatIssues(requests)]

(***************************************************************************)
(* analyzer.ts: compareRegions                                             *)
(***************************************************************************)
\* A JavaScript Map is a sequence of [k, v] in insertion order.
\* origin + pathname of the parsed URL: what follows the path (url.query:
\* the query string or the fragment) is dropped. Request URLs of a HAR are
\* absolute, so `new URL` does not throw.
getBaseUrl(url) == [url EXCEPT !.query = ""]

\* `for (const region of regions) for (const request of region.requests)`
FlatRequests(regs) ==
    FlatMap([i \in DOMAIN regs |->
                [k \in DOMAIN regs[i].requests |->
                    [region |-> regs[i].name, request |-> regs[i].requests[k]]]])

\* A region's entry is replaced only by a strictly slower request
\* (`!existing || request.time > existing.time`): of the requests of one
\* URL and region name, the entry is request i iff none is slower and
\* none before it is as slow.
IsRepresentativeLast(times, i) ==
    \A j \in DOMAIN times : times[j] < times[i] \/ (times[j] = times[i] /\ j <= i)

IsRepresentative(times, i) ==
    \A j \in DOMAIN times : times[j] < times[i] \/ (times[j] = times[i] /\ j >= i)

\* regionMap of one URL: the names in order of first occurrence
\* (Map.set keeps a present key's place), each with its representative.
RegionNamesKept(names) == names

RegionNamesOf(names) == Distinct(names)

RegionMapOf(flat, baseUrl) ==
    LET mine  == SelectSeq(flat, LAMBDA x : getBaseUrl(x.request.url) = baseUrl)
        names == RegionNamesOf(AsSeq([i \in DOMAIN mine |-> mine[i].region]))
    IN  AsSeq([p \in DOMAIN names |->
            LET ofName == SelectSeq(mine, LAMBDA x : x.region = names[p])
                times  == AsSeq([i \in DOMAIN ofName |-> ofName[i].request.time])
                rep    == ofName[CHOOSE i \in DOMAIN ofName : IsRepresentative(times, i)].request
            IN  [k |-> names[p],
                 v |-> [time |-> rep.time, timings |-> rep.timings]]])

\* urlMap after the loops of lines 22-41: the base URLs in order of first
\* occurrence, each with its regionMap
BuildUrlMap(flat) ==
    LET urls == Distinct(AsSeq([i \in DOMAIN flat |->
                                   getBaseUrl(flat[i].request.url)]))
    IN  AsSeq([p \in DOMAIN urls |->
                  [k |-> urls[p], v |-> RegionMapOf(flat, urls[p])]])

\* `maxDiff / minTime > 0.5` in IEEE arithmetic: x/0 is Infinity for x > 0
\* and NaN for x = 0, and NaN > 0.5 is false.
RatioAboveHalf(maxDiff, minTime) ==
    IF minTime = 0 THEN maxDiff > 0
    ELSE IF minTime > 0 THEN 2 * maxDiff > minTime
    ELSE 2 * maxDiff < minTime

SignificantDiffInclusive(maxDiff, minTime) ==
    maxDiff >= 100 \/ RatioAboveHalf(maxDiff, minTime)

SignificantDiff(maxDiff, minTime) ==
    maxDiff > 100 \/ RatioAboveHalf(maxDiff, minTime)

ComparisonLastOfTies(url, regionMap) ==
    LET regionResults == AsSeq([i \in DOMAIN regionMap |->
                             [name    |-> regionMap[i].k,
                              time    |-> regionMap[i].v.time,
                              timings |-> regionMap[i].v.timings]])
        times   == AsSeq([i \in DOMAIN regionResults |-> regionResults[i].time])
        maxTime == MathMax(times)
        minTime == MathMin(times)
        lastOf(t) == CHOOSE i \in DOMAIN times :
                        times[i] = t /\ \A j \in DOMAIN times : times[j] = t => j <= i
    IN  [url           |-> url,
         regions       |-> regionResults,
         maxDiff       |-> maxTime - minTime,
         minTime       |-> minTime,
         slowestRegion |-> regionResults[lastOf(maxTime)].name,
         fastestRegion |-> regionResults[lastOf(minTime)].name]

\* The comparison of one urlMap entry (lines 50-71)
Comparison(url, regionMap) ==
    LET regionResults == AsSeq([i \in DOMAIN regionMap |->
                             [name    |-> regionMap[i].k,
                              time    |-> regionMap[i].v.time,
                              timings |-> regionMap[i].v.timings]])
        times   == AsSeq([i \in DOMAIN regionResults |-> regionResults[i].time])
        maxTime == MathMax(times)
        minTime == MathMin(times)
    IN  [url           |-> url,
         regions       |-> regionResults,
         maxDiff       |-> maxTime - minTime,
         minTime       |-> minTime,
         slowestRegion |->
             regionResults[FirstIdx(regionResults, LAMBDA r : r.time = maxTime)[1]].name,
         fastestRegion |->
             regionResults[FirstIdx(regionResults, LAMBDA r : r.time = minTime)[1]].name]

EnoughRegionsThree(regionMap) == ~(Len(regionMap) < 3)

EnoughRegions(regionMap) == ~(Len(regionMap) < 2)

SortComparisonsUnsorted(comparisons) == comparisons

\* comparisons.sort((a, b) => b.maxDiff - a.maxDiff)
SortComparisons(comparisons) ==
    Permute(comparisons,
            SortDescIdx(AsSeq([i \in DOMAIN comparisons |-> comparisons[i].maxDiff])))

compareRegions(regs) ==
    IF Len(regs) < 2 THEN <<>>
    ELSE LET flat   == FlatRequests(regs)
             urlMap == BuildUrlMap(flat)
             all    == AsSeq([i \in DOMAIN urlMap |->
                                 Comparison(urlMap[i].k, urlMap[i].v)])
             kept   == SelectSeq([i \in DOMAIN urlMap |-> i],
                           LAMBDA i : /\ EnoughRegions(urlMap[i].v)
                                      /\ SignificantDiff(all[i].maxDiff, all[i].minTime))
             comparisons == AsSeq([p \in DOMAIN kept |->
                                [f \in {"url", "regions", "maxDiff",
                                        "slowestRegion", "fastestRegion"}
                                    |-> all[kept[p]][f]]])
         IN  SortComparisons(comparisons)

(***************************************************************************)
(* analyzer.ts: generateRecommendations, analyzeHarFiles                   *)
(***************************************************************************)
\* Rows of affectedUrls and of the evidence's details: slice(0, 50)
DetailCap == 50

\* Math.round(sum / n) for sum >= 0, n > 0
RoundDiv(sum, n) == (2 * sum + n) \div (2 * n)

\* The requests of all regions whose metric satisfies the family's test,
\* as IssueDetail rows in the order the loops meet them (lines 121-170).
DnsQualifies(t) == t.dns # 0 /\ t.dns > 100

ConnectQualifies(t) == t.connect # 0 /\ t.connect > 200

TtfbQualifiesInclusive(t) == t.wait >= 500

TtfbQualifies(t) == t.wait > 500

DownloadQualifies(t) == t.receive > 1000

FamilyMetric == [dns |-> "dns", connection |-> "connect",
                 server |-> "wait", payload |-> "receive"]

FamilyEscalationBelow == [dns |-> 299, connection |-> 499,
                          server |-> 1499, payload |-> 2999]

FamilyEscalation == [dns |-> 300, connection |-> 500,
                     server |-> 1500, payload |-> 3000]

Families == <<"dns", "connection", "server", "payload">>

Qualifies(category, t) ==
    CASE category = "dns"        -> DnsQualifies(t)
      [] category = "connection" -> ConnectQualifies(t)
      [] category = "server"     -> TtfbQualifies(t)
      [] category = "payload"    -> DownloadQualifies(t)

CollectIssues(regs, category) ==
    LET flat == SelectSeq(FlatRequests(regs),
                          LAMBDA x : Qualifies(category, x.request.timings))
    IN  AsSeq([i \in DOMAIN flat |->
                  [url    |-> flat[i].request.url,
                   value  |-> flat[i].request.timings[FamilyMetric[category]],
                   region |-> flat[i].region,
                   ssl    |-> flat[i].request.timings.ssl]])

\* issues.sort((a, b) => b.value - a.value)
SortIssues(issues) ==
    Permute(issues, SortDescIdx(AsSeq([i \in DOMAIN issues |-> issues[i].value])))

AffectedUrlsUncapped(rows) == [i \in DOMAIN rows |-> rows[i].url]

\* sorted.slice(0, 50).map((i) => i.url)
AffectedUrls(rows) ==
    LET top == Slice(rows, DetailCap) IN [i \in DOMAIN top |-> top[i].url]

\* One family's recommendation (lines 172-310): <<>> when nothing qualifies
FamilyRecommendation(regs, category) ==
    LET issues == CollectIssues(regs, category)
        sorted == SortIssues(issues)
        sum    == SumSeq([i \in DOMAIN sorted |-> sorted[i].value])
        maxV   == sorted[1].value
        top    == Slice(sorted, DetailCap)
    IN  IF Len(issues) > 0
        THEN <<[priority  |-> IF maxV > FamilyEscalation[category]
                              THEN "high" ELSE "medium",
                category  |-> category,
                stats     |-> [count   |-> Len(issues),
                               avgTime |-> RoundDiv(sum, Len(sorted)),
                               maxTime |-> maxV],
                details   |-> [i \in DOMAIN top |->
                                  [url    |-> top[i].url,
                                   value  |-> top[i].value,
                                   region |-> top[i].region]],
                affectedUrls    |-> AffectedUrls(sorted),
                affectedRegions |->
                    Distinct(AsSeq([i \in DOMAIN sorted |-> sorted[i].region]))]>>
        ELSE <<>>

\* slowestCounts: the slowest regions in order of first occurrence, each
\* with the number of comparisons it is slowest in (lines 315-319)
SlowestCounts(comparisons) ==
    LET names == Distinct(AsSeq([i \in DOMAIN comparisons |->
                                    comparisons[i].slowestRegion]))
    IN  [i \in DOMAIN names |->
            [name  |-> names[i],
             count |-> Len(SelectSeq(comparisons,
                           LAMBDA c : c.slowestRegion = names[i]))]]

SortRegionsUnsorted(counts) == counts

\* Array.from(slowestCounts.entries()).sort((a, b) => b[1] - a[1])
SortRegions(counts) ==
    Permute(counts, SortDescIdx(AsSeq([i \in DOMAIN counts |-> counts[i].count])))

\* `c.regions.find((r) => r.name === n)?.time || 0`
RegionTimeOr0(c, n) ==
    LET at == FirstIdx(c.regions, LAMBDA r : r.name = n)
    IN  IF at = <<>> THEN 0 ELSE c.regions[at[1]].time

SlowRegionMin == 3

\* The region-disparity recommendation (lines 312-364)
RegionRecommendation(comparisons) ==
    IF Len(comparisons) > 0
    THEN LET counts        == SlowestCounts(comparisons)
             sortedRegions == SortRegions(counts)
             problematicRegion == sortedRegions[1].name
             count             == sortedRegions[1].count
             regionComparisons ==
                 SelectSeq(comparisons,
                           LAMBDA c : c.slowestRegion = problematicRegion)
             sum == SumSeq([i \in DOMAIN regionComparisons |->
                               regionComparisons[i].maxDiff])
             top == Slice(regionComparisons, DetailCap)
         IN  IF Len(sortedRegions) > 0 /\ sortedRegions[1].count >= SlowRegionMin
             THEN <<[priority |-> "high",
                     category |-> "cdn",
                     stats    |-> [region           |-> problematicRegion,
                                   slowCount        |-> count,
                                   avgDiff          |-> RoundDiv(sum, Len(regionComparisons)),
                                   totalComparisons |-> Len(comparisons)],
                     details  |-> [i \in DOMAIN top |->
                                      [url           |-> top[i].url,
                                       thisRegion    |-> RegionTimeOr0(top[i], problematicRegion),
                                       fastest       |-> RegionTimeOr0(top[i], top[i].fastestRegion),
                                       fastestRegion |-> top[i].fastestRegion,
                                       diff          |-> top[i].maxDiff]],
                     affectedUrls    |-> AffectedUrls(regionComparisons),
                     affectedRegions |-> <<problematicRegion>>]>>
             ELSE <<>>
    ELSE <<>>

generateRecommendations(regs, comparisons) ==
    FamilyRecommendation(regs, "dns")
    \o FamilyRecommendation(regs, "connection")
    \o FamilyRecommendation(regs, "server")
    \o FamilyRecommendation(regs, "payload")
    \o RegionRecommendation(comparisons)

analyzeHarFiles(regs) ==
    LET comparisons == compareRegions(regs)
    IN  [regions         |-> regs,
         comparisons     |-> comparisons,
         recommendations |-> generateRecommendations(regs, comparisons)]

(***************************************************************************)
(* analyzer.ts: the UX timeline                                            *)
(***************************************************************************)
UX_THRESHOLDS ==
    [apiGapThreshold      |-> 50,
     blockingTimeWarning  |-> 200,
     blockingTimeCritical |-> 500,
     waitingPeriodMin     |-> 100]

IsApi(r) == r.type = "xhr" \/ r.type = "fetch"

FollowsNoUpperBound(r, currentEndTime) == r.startTime >= currentEndTime

\* buildChain, lines 615-616: r starts within the gap after the current end
Follows(r, currentEndTime) ==
    /\ r.startTime >= currentEndTime
    /\ r.startTime <= currentEndTime + UX_THRESHOLDS.apiGapThreshold

\* buildChain's while loop: current is <<>> (undefined) or <<an index of
\* allApiRequests>>; the result is the nodes and the updated visited set.
RECURSIVE WalkChain(_, _, _, _)
WalkChain(current, allApiRequests, visited, nodes) ==
    IF current = <<>> \/ allApiRequests[current[1]].id \in visited
    THEN [nodes |-> nodes, visited |-> visited]
    ELSE LET currentRequest == allApiRequests[current[1]]
             visited1       == visited \cup {currentRequest.id}
             currentEndTime == currentRequest.startTime + currentRequest.time
             node == [request   |-> currentRequest,
                      startTime |-> currentRequest.startTime,
                      endTime   |-> currentEndTime,
                      dependsOn |-> IF nodes = <<>> THEN <<>>
                                    ELSE <<nodes[Len(nodes)].request.id>>]
             nextRequest ==
                 FirstIdx(allApiRequests,
                          LAMBDA r : r.id \notin visited1 /\ Follows(r, currentEndTime))
         IN  WalkChain(nextRequest, allApiRequests, visited1, Append(nodes, node))

BottleneckLast(nodes) == nodes[Len(nodes)]

\* nodes.reduce(...): the first node of the greatest request time
Bottleneck(nodes) ==
    nodes[FirstIdx(nodes, LAMBDA n : \A m \in Range(nodes) :
                                         m.request.time <= n.request.time)[1]]

buildChain(start, allApiRequests, visited) ==
    LET walk  == WalkChain(<<start>>, allApiRequests, visited, <<>>)
        nodes == walk.nodes
    IN  [chain   |-> [id            |-> <<"chain", allApiRequests[start].id>>,
                      nodes         |-> nodes,
                      totalDuration |-> IF Len(nodes) > 0
                                        THEN nodes[Len(nodes)].endTime - nodes[1].startTime
                                        ELSE 0,
                      chainLength   |-> Len(nodes),
                      bottleneck    |-> Bottleneck(nodes)],
         visited |-> walk.visited]

RECURSIVE ChainsFromForgetful(_, _, _, _)
ChainsFromForgetful(k, apiRequests, visited, chains) ==
    IF k > Len(apiRequests) THEN chains
    ELSE LET built == buildChain(k, apiRequests, {})
         IN  ChainsFromForgetful(k + 1, apiRequests, visited,
                                 IF Len(built.chain.nodes) > 1
                                 THEN Append(chains, built.chain) ELSE chains)

\* analyzeApiChains' for loop from request k on
RECURSIVE ChainsFrom(_, _, _, _)
ChainsFrom(k, apiRequests, visited, chains) ==
    IF k > Len(apiRequests) THEN chains
    ELSE IF apiRequests[k].id \in visited
    THEN ChainsFrom(k + 1, apiRequests, visited, chains)
    ELSE LET built == buildChain(k, apiRequests, visited)
         IN  ChainsFrom(k + 1, apiRequests, built.visited,
                        IF Len(built.chain.nodes) > 1
                        THEN Append(chains, built.chain) ELSE chains)

analyzeApiChains(requests) ==
    LET api         == SelectSeq(requests, IsApi)
        apiRequests == Permute(api, SortAscIdx(AsSeq([i \in DOMAIN api |->
                                                          api[i].startTime])))
        chains      == ChainsFrom(1, apiRequests, {}, <<>>)
    IN  IF Len(apiRequests) = 0 THEN <<>>
        ELSE Permute(chains,
                     SortDescIdx(AsSeq([i \in DOMAIN chains |->
                                           chains[i].totalDuration])))

\* r.startTime + r.time
RequestEnd(r) == r.startTime + r.time

\* htmlEndTime (lines 437, 449-451 and 524-527): the end of the first
\* document request, or 0
HtmlEndTime(requests) ==
    LET htmlRequest == FirstIdx(requests, LAMBDA r : r.type = "document")
    IN  IF htmlRequest # <<>> THEN RequestEnd(requests[htmlRequest[1]]) ELSE 0

IsRenderBlockingStrict(r, htmlEndTime) ==
    /\ r.type = "script" \/ r.type = "stylesheet"
    /\ r.startTime < htmlEndTime + 100

\* The filter of lines 452-456
IsRenderBlocking(r, htmlEndTime) ==
    /\ r.type = "script" \/ r.type = "stylesheet"
    /\ r.startTime <= htmlEndTime + 100

IsCriticalWithoutApi(r) ==
    r.type \in {"document", "script", "stylesheet"}

\* The filter of lines 490-497
IsCritical(r) ==
    r.type \in {"document", "script", "stylesheet", "xhr", "fetch"}

\* apiRequests.reduce(...), lines 475-479: the first request of the
\* earliest end
FirstApi(apiRequests) ==
    apiRequests[FirstIdx(apiRequests,
                         LAMBDA r : \A m \in Range(apiRequests) :
                                        RequestEnd(m) >= RequestEnd(r))[1]]

SortMilestonesUnsorted(milestones) == milestones

\* milestones.sort((a, b) => a.time - b.time)
SortMilestones(milestones) ==
    Permute(milestones,
            SortAscIdx(AsSeq([i \in DOMAIN milestones |-> milestones[i].time])))

identifyMilestones(requests) ==
    LET htmlRequest == FirstIdx(requests, LAMBDA r : r.type = "document")
        htmlEndTime == HtmlEndTime(requests)
        renderBlockingResources ==
            SelectSeq(requests, LAMBDA r : IsRenderBlocking(r, htmlEndTime))
        apiRequests       == SelectSeq(requests, IsApi)
        criticalResources == SelectSeq(requests, IsCritical)
        lastCriticalTime  ==
            MathMax(AsSeq([i \in DOMAIN criticalResources |->
                              RequestEnd(criticalResources[i])]))
        lastCritical ==
            FirstIdx(criticalResources,
                     LAMBDA r : RequestEnd(r) = lastCriticalTime)
        firstApi == FirstApi(apiRequests)
    IN  SortMilestones(
            (IF htmlRequest # <<>>
             THEN <<[type     |-> "html_loaded",
                     time     |-> RequestEnd(requests[htmlRequest[1]]),
                     requests |-> <<requests[htmlRequest[1]]>>]>>
             ELSE <<>>)
         \o (IF Len(renderBlockingResources) > 0
             THEN <<[type     |-> "render_blocking_done",
                     time     |-> MathMax(AsSeq([i \in DOMAIN renderBlockingResources |->
                                                  RequestEnd(renderBlockingResources[i])])),
                     requests |-> renderBlockingResources]>>
             ELSE <<>>)
         \o (IF Len(apiRequests) > 0
             THEN <<[type     |-> "first_api_response",
                     time     |-> RequestEnd(firstApi),
                     requests |-> <<firstApi>>]>>
             ELSE <<>>)
         \o (IF Len(criticalResources) > 0
             THEN <<[type     |-> "critical_resources_done",
                     time     |-> lastCriticalTime,
                     requests |-> IF lastCritical # <<>>
                                  THEN <<criticalResources[lastCritical[1]]>>
                                  ELSE <<>>]>>
             ELSE <<>>))

\* The filter of lines 529-533
IsPotentialBlocking(r, htmlEndTime) ==
    /\ r.type = "script" \/ r.type = "stylesheet"
    /\ r.startTime <= htmlEndTime + 50

ImpactStrict(blockingDuration) ==
    IF blockingDuration > UX_THRESHOLDS.blockingTimeCritical THEN "high"
    ELSE IF blockingDuration > UX_THRESHOLDS.blockingTimeWarning THEN "medium"
    ELSE "low"

\* Lines 539-546
Impact(blockingDuration) ==
    IF blockingDuration >= UX_THRESHOLDS.blockingTimeCritical THEN "high"
    ELSE IF blockingDuration >= UX_THRESHOLDS.blockingTimeWarning THEN "medium"
    ELSE "low"

identifyBlockingResources(requests) ==
    LET htmlEndTime == HtmlEndTime(requests)
        potentialBlocking ==
            SelectSeq(requests, LAMBDA r : IsPotentialBlocking(r, htmlEndTime))
        blockingResources ==
            AsSeq([i \in DOMAIN potentialBlocking |->
                      [request          |-> potentialBlocking[i],
                       blockingType     |-> potentialBlocking[i].type,
                       isInHead         |-> potentialBlocking[i].startTime <= htmlEndTime,
                       blockingDuration |-> potentialBlocking[i].time,
                       impact           |-> Impact(potentialBlocking[i].time)]])
    IN  Permute(blockingResources,
                SortDescIdx(AsSeq([i \in DOMAIN blockingResources |->
                                      blockingResources[i].blockingDuration])))

IsSlowApiInclusive(r) == IsApi(r) /\ r.time >= 500

\* The filter of lines 665-667
IsSlowApi(r) == IsApi(r) /\ r.time > 500

\* Lines 655-660
PeriodSeverity(impact) ==
    IF impact = "high" THEN "critical"
    ELSE IF impact = "medium" THEN "warning" ELSE "normal"

identifyWaitingPeriods(requests, blockingResources) ==
    LET waited ==
            SelectSeq(blockingResources,
                      LAMBDA b : b.blockingDuration >= UX_THRESHOLDS.waitingPeriodMin)
        slowApis == SelectSeq(requests, IsSlowApi)
        periods ==
            AsSeq([i \in DOMAIN waited |->
                      [startTime       |-> waited[i].request.startTime,
                       endTime         |-> RequestEnd(waited[i].request),
                       duration        |-> waited[i].blockingDuration,
                       reason          |-> IF waited[i].blockingType = "script"
                                           THEN "JavaScript" ELSE "CSS",
                       relatedRequests |-> <<waited[i].request>>,
                       severity        |-> PeriodSeverity(waited[i].impact)]])
            \o AsSeq([i \in DOMAIN slowApis |->
                      [startTime       |-> slowApis[i].startTime,
                       endTime         |-> RequestEnd(slowApis[i]),
                       duration        |-> slowApis[i].time,
                       reason          |-> "API",
                       relatedRequests |-> <<slowApis[i]>>,
                       severity        |-> slowApis[i].severity]])
    IN  Permute(periods,
                SortDescIdx(AsSeq([i \in DOMAIN periods |-> periods[i].duration])))

\* `m ? m.time - baseTime : 0` for the first milestone of the type
\* (lines 698-710)
MilestoneTimeFrom(milestones, type, baseTime) ==
    LET m == FirstIdx(milestones, LAMBDA x : x.type = type)
    IN  IF m # <<>> THEN milestones[m[1]].time - baseTime ELSE 0

calculateSummary(milestones, blockingResources, apiChains, requests) ==
    LET baseTime ==
            IF Len(requests) > 0
            THEN MathMin(AsSeq([i \in DOMAIN requests |-> requests[i].startTime]))
            ELSE 0
        path == SelectSeq(requests,
                          LAMBDA r : r.type \in {"document", "script", "stylesheet"})
    IN  [timeToFirstPaint  |->
             MilestoneTimeFrom(milestones, "render_blocking_done", baseTime),
         timeToInteractive |->
             MilestoneTimeFrom(milestones, "critical_resources_done", baseTime),
         totalBlockingTime |->
             SumSeq(AsSeq([i \in DOMAIN blockingResources |->
                              blockingResources[i].blockingDuration])),
         longestApiChain   |->
             IF Len(apiChains) > 0
             THEN MathMax(AsSeq([i \in DOMAIN apiChains |->
                                    apiChains[i].totalDuration]))
             ELSE 0,
         criticalPath      |->
             Permute(path, SortAscIdx(AsSeq([i \in DOMAIN path |->
                                                path[i].startTime])))]

RequestsSortedInPlace(requests) ==
    Permute(requests,
            SortAscIdx(AsSeq([i \in DOMAIN requests |-> requests[i].startTime])))

\* region.requests after analyzeUXTimeline. Array.prototype.sort sorts its
\* receiver in place; in every callee (lines 514, 557, 568, 584, 679, 727)
\* the receiver is the result of filter or an array the callee built, and
\* `requests` itself is only read.
RequestsAfterTimeline(requests) == requests

analyzeUXTimeline(region) ==
    LET requests          == region.requests
        milestones        == identifyMilestones(requests)
        blockingResources == identifyBlockingResources(requests)
        apiChains         == analyzeApiChains(requests)
        waitingPeriods    == identifyWaitingPeriods(requests, blockingResources)
        summary           == calculateSummary(milestones, blockingResources,
                                              apiChains, requests)
    IN  [region            |-> region.name,
         milestones        |-> milestones,
         blockingResources |-> blockingResources,
         apiChains         |-> apiChains,
         waitingPeriods    |-> waitingPeriods,
         summary           |-> summary]

(***************************************************************************)
(* The page (Home) and the uploader (HarUploader)                          *)
(***************************************************************************)
EmptyMessage == "no entries"

SyntaxMessage == "SyntaxError"

\* err.message of what parseHarFile threw
ThrownMessage(f) == IF f.form = "not json" THEN SyntaxMessage ELSE EmptyMessage

PRESET_REGIONS == <<"Beijing", "Shanghai", "Guangzhou", "Shenzhen">>

OtherRegions == <<"Region 5", "Region 6", "Region 7", "Region 8">>

\* PRESET_REGIONS[files.length + index] || `Region ${files.length + index + 1}`
DefaultRegionName(n) ==
    IF n + 1 \in DOMAIN PRESET_REGIONS THEN PRESET_REGIONS[n + 1]
    ELSE OtherRegions[n + 1 - Len(PRESET_REGIONS)]

Init ==
    /\ files = <<>>
    /\ pc = "idle"
    /\ regions = <<>>
    /\ isLoading = FALSE
    /\ error = <<>>
    /\ result = <<>>
    /\ selectedRegion = <<>>
    /\ timeline = <<>>

\* HarUploader.handleDrop / handleFileInput followed by updateRegionName:
\* one file of content c is listed under region name n.
AddFile(Captures, Renames, maxFiles) ==
    /\ pc = "idle"
    /\ result = <<>>
    /\ Len(files) < maxFiles
    /\ \E c \in Captures, n \in {DefaultRegionName(Len(files))} \cup Renames :
           files' = Append(files, [content |-> c, regionName |-> n, form |-> "har"])
    /\ UNCHANGED <<pc, regions, isLoading, error, result, selectedRegion, timeline>>

\* As AddFile, for a file whose text holds no entry list
AddUnreadable(maxFiles) ==
    /\ pc = "idle"
    /\ result = <<>>
    /\ Len(files) < maxFiles
    /\ \E form \in {"no entries", "not json"} :
           files' = Append(files, [content    |-> <<>>,
                                   regionName |-> DefaultRegionName(Len(files)),
                                   form       |-> form])
    /\ UNCHANGED <<pc, regions, isLoading, error, result, selectedRegion, timeline>>

\* HarUploader.removeFile: the file at index i leaves the list
RemoveFile ==
    /\ pc = "idle"
    /\ result = <<>>
    /\ \E i \in DOMAIN files :
           files' = SubSeq(files, 1, i - 1) \o SubSeq(files, i + 1, Len(files))
    /\ UNCHANGED <<pc, regions, isLoading, error, result, selectedRegion, timeline>>

\* HarUploader.handleAnalyze -> Home.handleAnalyze up to its loop
StartAnalyze ==
    /\ pc = "idle"
    /\ result = <<>>
    /\ Len(files) > 0
    /\ pc' = "parsing"
    /\ isLoading' = TRUE
    /\ error' = <<>>
    /\ regions' = <<>>
    /\ UNCHANGED <<files, result, selectedRegion, timeline>>

\* One turn of handleAnalyze's loop: parseHarFile of the next file; a throw
\* is caught, sets the error and ends the call.
ParseNextFile ==
    /\ pc = "parsing"
    /\ Len(regions) < Len(files)
    /\ LET f == files[Len(regions) + 1]
       IN  IF ParseThrows(f)
           THEN /\ error' = <<ThrownMessage(f)>>
                /\ isLoading' = FALSE
                /\ pc' = "idle"
                /\ UNCHANGED regions
           ELSE /\ regions' = Append(regions, parseHarFile(f.content, f.regionName))
                /\ UNCHANGED <<error, isLoading, pc>>
    /\ UNCHANGED <<files, result, selectedRegion, timeline>>

\* The end of handleAnalyze: analyzeHarFiles, setResult, setSelectedRegion
FinishAnalyze ==
    /\ pc = "parsing"
    /\ Len(regions) = Len(files)
    /\ result' = <<analyzeHarFiles(regions)>>
    /\ selectedRegion' = <<regions[1].name>>
    /\ isLoading' = FALSE
    /\ pc' = "idle"
    /\ UNCHANGED <<files, regions, error, timeline>>

\* A region tab is clicked and the UX timeline tab renders currentRegion
\* (the first region of the selected name).
ViewTimeline ==
    /\ result # <<>>
    /\ \E i \in DOMAIN result[1].regions :
          LET name == result[1].regions[i].name
              at   == FirstIdx(result[1].regions, LAMBDA r : r.name = name)
          IN  /\ selectedRegion' = <<name>>
              /\ timeline' = <<analyzeUXTimeline(result[1].regions[at[1]])>>
              /\ result' = <<[result[1] EXCEPT !.regions[at[1]].requests =
                                                  RequestsAfterTimeline(@)]>>
    /\ UNCHANGED <<files, pc, regions, isLoading, error>>

\* handleReset; the uploader is mounted anew with an empty list
Reset ==
    /\ result # <<>>
    /\ result' = <<>>
    /\ selectedRegion' = <<>>
    /\ error' = <<>>
    /\ timeline' = <<>>
    /\ files' = <<>>
    /\ regions' = <<>>
    /\ UNCHANGED <<pc, isLoading>>

(***************************************************************************)
(* Inputs: the captures a file may hold                                    *)
(***************************************************************************)
NoTimings == [f \in TimingFields |-> <<>>]

BaseEntry ==
    [started     |-> 1000,
     time        |-> 0,
     timings     |-> NoTimings,
     xrw         |-> <<>>,
     mime        |-> {},
     url         |-> [path |-> 1, ext |-> "", query |-> "", inner |-> {}],
     bodySize    |-> 0,
     contentSize |-> 0]

\* Captures of 1..MaxEntries entries of E, and the capture without entries
CapturesOf(E) == UNION {[1..n -> E] : n \in 0..MaxEntries}

\* One entry per capture; raw timing fields absent, -1, 0 or positive: the
\* fields normalized with `t.f && t.f > 0` alike, those normalized with
\* `t.f > 0` alike, and one field differing from the others.
RawTimingVals == {<<>>, <<0 - 1>>, <<0>>, <<150>>}

OptionalFields == {"blocked", "dns", "connect", "ssl"}

TimingCaptures ==
    {<<[BaseEntry EXCEPT !.timings =
            [g \in TimingFields |-> IF g = f THEN v
                                    ELSE IF g \in OptionalFields THEN a ELSE b]]>> :
        f \in TimingFields, v \in RawTimingVals,
        a \in RawTimingVals, b \in RawTimingVals}

\* One entry per capture; every request type, durations around every threshold
TypeSamples ==
    [xhr        |-> [BaseEntry EXCEPT !.xrw = <<"xmlhttprequest">>],
     fetch      |-> [BaseEntry EXCEPT !.mime = {"json"}],
     document   |-> [BaseEntry EXCEPT !.mime = {"html"}],
     script     |-> [BaseEntry EXCEPT !.mime = {"javascript"}],
     stylesheet |-> [BaseEntry EXCEPT !.mime = {"css"}],
     image      |-> [BaseEntry EXCEPT !.mime = {"image"}],
     font       |-> [BaseEntry EXCEPT !.mime = {"font"}],
     media      |-> [BaseEntry EXCEPT !.mime = {"video"}],
     other      |-> BaseEntry]

BoundaryTimes ==
    {0, 499, 500, 501, 999, 1000, 1001, 1499, 1500, 1501, 2999, 3000, 3001}

SeverityCaptures ==
    {<<[TypeSamples[ty] EXCEPT !.time = t]>> : ty \in RequestTypes, t \in BoundaryTimes}

\* Entries in any order of their start timestamps
OffsetEntries ==
    {[BaseEntry EXCEPT !.started = s, !.time = t] :
        s \in {1000, 1100, 1250}, t \in {50, 300}}

OffsetCaptures == CapturesOf(OffsetEntries)

\* Two request URLs; durations whose spreads lie on both sides of 100 ms
\* and of one half of the smaller duration, and the duration 0
FirstUrlEntries ==
    {[BaseEntry EXCEPT !.url.path = 1, !.time = t] : t \in {0, 60, 100, 200, 300, 301}}

SecondUrlEntries ==
    {[BaseEntry EXCEPT !.url.path = 2, !.time = t] : t \in {200, 301}}

\* No entry, one entry, one entry per URL, or one URL requested twice
CompareCaptures ==
    {<<>>}
    \cup {<<e>> : e \in FirstUrlEntries \cup SecondUrlEntries}
    \cup {<<a, b>> : a \in FirstUrlEntries, b \in SecondUrlEntries}
    \cup {<<[BaseEntry EXCEPT !.url.path = 1, !.time = t[1]],
            [BaseEntry EXCEPT !.url.path = 1, !.time = t[2]]>> :
             t \in {<<200, 300>>, <<300, 200>>}}

\* A name typed over the default one: that of the first file
CompareRenames == {PRESET_REGIONS[1]}

NextTimings ==
    \/ AddFile(TimingCaptures, {}, SingleFile)
    \/ StartAnalyze
    \/ ParseNextFile
    \/ FinishAnalyze
    \/ ViewTimeline
    \/ Reset

SpecTimings == Init /\ [][NextTimings]_vars

NextSeverity ==
    \/ AddFile(SeverityCaptures, {}, SingleFile)
    \/ StartAnalyze
    \/ ParseNextFile
    \/ FinishAnalyze
    \/ ViewTimeline
    \/ Reset

SpecSeverity == Init /\ [][NextSeverity]_vars

NextOffsets ==
    \/ AddFile(OffsetCaptures, {}, SingleFile)
    \/ StartAnalyze
    \/ ParseNextFile
    \/ FinishAnalyze
    \/ ViewTimeline
    \/ Reset

SpecOffsets == Init /\ [][NextOffsets]_vars

NextCompare ==
    \/ AddFile(CompareCaptures, CompareRenames, MaxFiles)
    \/ StartAnalyze
    \/ ParseNextFile
    \/ FinishAnalyze
    \/ ViewTimeline
    \/ Reset

SpecCompare == Init /\ [][NextCompare]_vars

\* Generated captures of n entries, each for a URL of its own.  Entry i
\* waits `quiet` ms for the server, or spends base + 10 * ((7 * i) % 5) ms
\* in the profile's slow phase; its total duration is the sum of its phases.
BulkValue(base, i) == base + 10 * ((7 * i) % 5)

BulkEntry(i, phase, base, quiet) ==
    LET slow == IF phase = "none" THEN NoTimings
                ELSE [NoTimings EXCEPT ![phase] = <<BulkValue(base, i)>>]
        t    == IF phase = "wait" THEN slow
                ELSE [slow EXCEPT !.wait = <<quiet>>]
    IN  [BaseEntry EXCEPT !.url.path = i,
                          !.timings = t,
                          !.time = (IF phase = "none" THEN 0 ELSE BulkValue(base, i))
                                   + (IF phase = "wait" THEN 0 ELSE quiet)]

BulkCapture(n, phase, base, quiet) ==
    [i \in 1..n |-> BulkEntry(i, phase, base, quiet)]

\* Slow phases just above the family's threshold and around its escalation
SlowProfiles ==
    {<<"dns", 85>>, <<"dns", 290>>, <<"connect", 185>>, <<"connect", 490>>,
     <<"wait", 485>>, <<"wait", 1490>>, <<"receive", 985>>, <<"receive", 2990>>}

BulkCaptures ==
    {BulkCapture(n, "none", 0, q) : n \in {1, 3}, q \in {200, 500}}
    \cup {BulkCapture(3, sp[1], sp[2], 200) : sp \in SlowProfiles}
    \cup {BulkCapture(DetailCap + 1, "dns", 290, q) : q \in {200, 500}}

NextRecs ==
    \/ AddFile(BulkCaptures, {}, MaxFiles)
    \/ StartAnalyze
    \/ ParseNextFile
    \/ FinishAnalyze
    \/ ViewTimeline
    \/ Reset

SpecRecs == Init /\ [][NextRecs]_vars

\* API calls and other requests around the 50 ms gap: a first xhr call,
\* then a request starting before, with, or 40 to 100 ms after it, then
\* possibly a third call
ChainEntry(type, s, t) ==
    [TypeSamples[type] EXCEPT !.started = s, !.time = t]

ChainFirsts == {ChainEntry("xhr", 1000, t) : t \in {0, 20, 40, 100}}

ChainSeconds ==
    {ChainEntry(ty, s, t) : ty \in {"xhr", "other"},
                            s \in {960, 1000, 1040, 1060, 1100}, t \in {0, 20}}

ChainThirds == {ChainEntry("xhr", s, 0) : s \in {1080, 1120}}

ChainCaptures ==
    {<<a>> : a \in ChainFirsts}
    \cup {<<a, b>> : a \in ChainFirsts, b \in ChainSeconds}
    \cup {<<a, b, c>> : a \in {ChainEntry("xhr", 1000, 20)},
                        b \in {ChainEntry("xhr", s, 20) : s \in {1040, 1060}},
                        c \in ChainThirds}

NextChains ==
    \/ AddFile(ChainCaptures, {}, SingleFile)
    \/ StartAnalyze
    \/ ParseNextFile
    \/ FinishAnalyze
    \/ ViewTimeline
    \/ Reset

SpecChains == Init /\ [][NextChains]_vars

\* One request for /api/data per capture: 200 ms, or 900 ms with a wait
\* phase absent, at, just above or well above 500 ms
ApiDataEntry(t, w) ==
    [BaseEntry EXCEPT !.time = t, !.timings.wait = w]

ScenarioCaptures ==
    {<<ApiDataEntry(200, w)>> : w \in {<<>>, <<100>>}}
    \cup {<<ApiDataEntry(900, w)>> : w \in {<<>>, <<500>>, <<501>>, <<850>>}}

NextScenario ==
    \/ AddFile(ScenarioCaptures, {}, MaxFiles)
    \/ StartAnalyze
    \/ ParseNextFile
    \/ FinishAnalyze
    \/ ViewTimeline
    \/ Reset

SpecScenario == Init /\ [][NextScenario]_vars

\* A document, then a script starting 210 ms after it; the script's time
\* is spent waiting, receiving, queueing, or in no recorded phase
PageDocument(t) == [TypeSamples.document EXCEPT !.time = t]

PageScript(t, w, r, b) ==
    [TypeSamples.script EXCEPT !.url.path = 2, !.url.ext = "js",
                               !.started = 1210,
                               !.time = t,
                               !.timings.wait = w,
                               !.timings.receive = r,
                               !.timings.blocked = b]

ScriptCaptures ==
    {<<PageDocument(d), PageScript(t, w, r, b)>> :
        d \in {200, 1000}, t \in {400, 2000},
        w \in {<<>>, <<499>>, <<500>>}, r \in {<<>>, <<1000>>},
        b \in {<<>>, <<1900>>}}

NextScript ==
    \/ AddFile(ScriptCaptures, {}, SingleFile)
    \/ StartAnalyze
    \/ ParseNextFile
    \/ FinishAnalyze
    \/ ViewTimeline
    \/ Reset

SpecScript == Init /\ [][NextScript]_vars

\* Readable captures with no, one or two entries, beside unreadable files
RejectCaptures ==
    {<<>>, <<BaseEntry>>, <<[BaseEntry EXCEPT !.time = 300]>>,
     <<BaseEntry, [BaseEntry EXCEPT !.time = 300]>>}

NextReject ==
    \/ AddFile(RejectCaptures, {}, MaxFiles)
    \/ AddUnreadable(MaxFiles)
    \/ StartAnalyze
    \/ ParseNextFile
    \/ FinishAnalyze
    \/ ViewTimeline
    \/ Reset

SpecReject == Init /\ [][NextReject]_vars

\* One request for one URL per capture, of 100 or 300 ms, its DNS phase
\* unrecorded or slow: three regions tie for the slowest or the fastest
TieCaptures ==
    {<<[BaseEntry EXCEPT !.time = t, !.timings.dns = d]>> :
        t \in {100, 300}, d \in {<<>>, <<150>>}}

NextTies ==
    \/ AddFile(TieCaptures, {}, TieFiles)
    \/ StartAnalyze
    \/ ParseNextFile
    \/ FinishAnalyze
    \/ ViewTimeline
    \/ Reset

SpecTies == Init /\ [][NextTies]_vars

\* One entry per capture: with and without the XHR header, MIME types of
\* no, one or two of the keywords, URLs with the extensions of the rules,
\* with and without a query string, and URLs with ".ico" or ".otf" inside
MimeSamples ==
    {{}} \cup {{k} : k \in {"json", "xml", "html", "javascript", "css",
                            "image", "font", "video", "audio"}}
    \cup {{"image", "xml"}, {"html", "javascript"}, {"css", "image"},
          {"font", "video"}, {"javascript", "css"}, {"html", "json"},
          {"image", "font"}}

TypedEntry(x, m, e, q, n) ==
    [BaseEntry EXCEPT !.xrw = x, !.mime = m,
                      !.url.ext = e, !.url.query = q, !.url.inner = n]

TypeCaptures ==
    {<<TypedEntry(x, m, e, q, {})>> :
        x \in {<<>>, <<"xmlhttprequest">>}, m \in MimeSamples,
        e \in {"", "js", "css", "png", "woff", "html"}, q \in {"", "?v=1"}}
    \cup {<<TypedEntry(<<>>, m, e, "", n)>> :
             m \in {{}, {"font"}, {"video"}}, e \in {"", "js", "woff", "html"},
             n \in {{"ico"}, {"otf"}}}
    \cup {<<TypedEntry(<<"fetch">>, {"html"}, "", "", {})>>}

NextTypes ==
    \/ AddFile(TypeCaptures, {}, SingleFile)
    \/ StartAnalyze
    \/ ParseNextFile
    \/ FinishAnalyze
    \/ ViewTimeline
    \/ Reset

SpecTypes == Init /\ [][NextTypes]_vars

\* Phase timings 1 ms below, at and 1 ms above the issue thresholds, in one
\* or two phases of a request that is fast (normal) or slow (critical);
\* and a fast request with an issue beside a slow one without
IssueLimits ==
    [blocked |-> 100, dns |-> 100, connect |-> 200, ssl |-> 200,
     wait |-> 500, receive |-> 1000]

PhasedEntry(f, v, g, w, t) ==
    [BaseEntry EXCEPT !.time = t,
                      !.timings = [h \in TimingFields |->
                                      IF h = f THEN <<IssueLimits[f] + v>>
                                      ELSE IF h = g THEN <<IssueLimits[g] + w>>
                                      ELSE <<>>]]

IssueCaptures ==
    {<<PhasedEntry(f, v, g, w, t)>> :
        f \in DOMAIN IssueLimits, v \in {0 - 1, 0, 1},
        g \in DOMAIN IssueLimits, w \in {0 - 1, 0},
        t \in {0, 5000}}
    \cup {<<PhasedEntry("dns", 0, "dns", 0, 0),
            PhasedEntry("wait", 0 - 1, "receive", 0 - 1, 5000)>>}

NextIssues ==
    \/ AddFile(IssueCaptures, {}, SingleFile)
    \/ StartAnalyze
    \/ ParseNextFile
    \/ FinishAnalyze
    \/ ViewTimeline
    \/ Reset

SpecIssues == Init /\ [][NextIssues]_vars

\* One URL requested once, quickly, or twice with other query strings or
\* fragments, the two requests of equal or different durations and of
\* different wait phases
JoinedEntry(q, t, w) ==
    [BaseEntry EXCEPT !.url.query = q, !.time = t, !.timings.wait = <<w>>]

JoinCaptures ==
    {<<JoinedEntry(q, 50, 5)>> : q \in {"", "?a=1"}}
    \cup {<<JoinedEntry(q[1], t1, 10), JoinedEntry(q[2], t2, 20)>> :
             q \in {<<"", "">>, <<"", "?a=1">>, <<"?a=1", "#top">>, <<"#top", "">>},
             t1 \in {200, 300}, t2 \in {200, 300}}

NextJoin ==
    \/ AddFile(JoinCaptures, {}, MaxFiles)
    \/ StartAnalyze
    \/ ParseNextFile
    \/ FinishAnalyze
    \/ ViewTimeline
    \/ Reset

SpecJoin == Init /\ [][NextJoin]_vars

\* One entry per capture, a single phase at a family's threshold, just
\* above it, at the family's escalation threshold or just above that
EdgeLimits ==
    {<<"dns", 100>>, <<"dns", 300>>, <<"connect", 200>>, <<"connect", 500>>,
     <<"wait", 500>>, <<"wait", 1500>>, <<"receive", 1000>>, <<"receive", 3000>>}

EdgeEntry(phase, v) ==
    [BaseEntry EXCEPT !.timings = [NoTimings EXCEPT ![phase] = <<v>>],
                      !.time = v]

EdgeCaptures == {<<EdgeEntry(e[1], e[2] + d)>> : e \in EdgeLimits, d \in {0, 1}}

NextEdges ==
    \/ AddFile(EdgeCaptures, {}, MaxFiles)
    \/ StartAnalyze
    \/ ParseNextFile
    \/ FinishAnalyze
    \/ ViewTimeline
    \/ Reset

SpecEdges == Init /\ [][NextEdges]_vars

\* Captures of the same DisparityUrls URLs; a capture is slow (500 ms
\* against 200 ms) on the URLs of its pattern.
DisparityUrls == 7

DisparityPatterns ==
    {{}, {1, 2}, {1, 2, 3}, {1, 2, 3, 4}, {4, 5, 6, 7}, {5, 6, 7}, {6, 7}}

DisparityCapture(S) ==
    [i \in 1..DisparityUrls |->
        [BaseEntry EXCEPT !.url.path = i,
                          !.time = IF i \in S THEN 500 ELSE 200]]

DisparityCaptures == {DisparityCapture(S) : S \in DisparityPatterns}

NextDisparity ==
    \/ AddFile(DisparityCaptures, {}, MaxFiles)
    \/ StartAnalyze
    \/ ParseNextFile
    \/ FinishAnalyze
    \/ ViewTimeline
    \/ Reset

SpecDisparity == Init /\ [][NextDisparity]_vars

\* Pages made of a first request (a document ending at 200 ms, or an
\* image), possibly a script or stylesheet starting around 100 ms and
\* around 300 ms, and possibly API calls.
PageHeads ==
    {<<ChainEntry("document", 1000, 200)>>, <<ChainEntry("image", 1000, 900)>>}

PageSheets ==
    {<<>>, <<ChainEntry("stylesheet", 1100, 400)>>}
    \cup {<<ChainEntry("script", s, 50)>> : s \in {1100, 1101, 1300, 1301}}

PageApis ==
    {<<>>,
     <<ChainEntry("xhr", 1000, 100)>>,
     <<ChainEntry("xhr", 1000, 100), ChainEntry("fetch", 1050, 20)>>,
     <<ChainEntry("xhr", 1400, 10)>>}

PageCaptures == {h \o s \o a : h \in PageHeads, s \in PageSheets, a \in PageApis}

NextPages ==
    \/ AddFile(PageCaptures, {}, SingleFile)
    \/ StartAnalyze
    \/ ParseNextFile
    \/ FinishAnalyze
    \/ ViewTimeline
    \/ Reset

SpecPages == Init /\ [][NextPages]_vars

\* Pages whose first request is a document ending at 200 ms or an image,
\* followed by a 200 ms script starting around the start, the 50 ms window
\* after it, the document's end and the window after that, and possibly by
\* a stylesheet with a duration around an impact limit.
BlockingScripts ==
    {ChainEntry("script", s, 200) :
        s \in {1000, 1001, 1050, 1051, 1200, 1201, 1250, 1251}}

BlockingSheets ==
    {<<>>} \cup {<<ChainEntry("stylesheet", 1000, t)>> : t \in {90, 199, 499, 500}}

BlockingCaptures ==
    {h \o <<s>> \o c : h \in PageHeads, s \in BlockingScripts, c \in BlockingSheets}

NextBlocking ==
    \/ AddFile(BlockingCaptures, {}, SingleFile)
    \/ StartAnalyze
    \/ ParseNextFile
    \/ FinishAnalyze
    \/ ViewTimeline
    \/ Reset

SpecBlocking == Init /\ [][NextBlocking]_vars

\* API calls that compete for the place after a node, that form two chains
\* of different durations, that are listed out of the order of their
\* start, and that a chain built earlier has already taken.
WalkCaptures ==
    {<<ChainEntry("xhr", 1000, 20), ChainEntry("fetch", 1040, u),
       ChainEntry("xhr", 1030, t)>> : t \in {0, 20, 60}, u \in {0, 20, 60}}
    \cup {<<ChainEntry("xhr", 1040, 100), ChainEntry("xhr", 1000, 20),
            ChainEntry("fetch", 1500, d), ChainEntry("xhr", 1500 + d + g, 10)>> :
             d \in {100, 200, 300}, g \in {0, 50, 51}}
    \cup {<<ChainEntry("xhr", 1000, 50), ChainEntry("xhr", 1010, 30),
            ChainEntry("xhr", s, 10)>> : s \in {1040, 1060, 1090, 1100, 1101}}
    \cup {<<ChainEntry("xhr", 1000, 0), ChainEntry("xhr", 1100, t),
            ChainEntry("other", 1100 + t, 0), ChainEntry("xhr", 1110 + t, 0)>> :
             t \in {0, 20}}
    \cup {<<ChainEntry("xhr", 1000, 100), ChainEntry("xhr", 1000, 0)>> \o c :
             c \in {<<>>, <<ChainEntry("fetch", 1030, 0)>>,
                          <<ChainEntry("fetch", 1030, 70)>>}}

NextWalks ==
    \/ AddFile(WalkCaptures, {}, SingleFile)
    \/ StartAnalyze
    \/ ParseNextFile
    \/ FinishAnalyze
    \/ ViewTimeline
    \/ Reset

SpecWalks == Init /\ [][NextWalks]_vars

\* A document, a script in its head with a duration around the waiting
\* minimum and the impact limits, possibly a stylesheet that starts too
\* late to block, and possibly an API call around 500 ms and 1000 ms.
WaitingScripts == {<<ChainEntry("script", 1000, t)>> : t \in {99, 100, 199, 200, 500}}

WaitingSheets == {<<>>, <<ChainEntry("stylesheet", 1300, 300)>>}

WaitingApis ==
    {<<>>} \cup {<<ChainEntry(ty, 1100, t)>> :
                    ty \in {"xhr", "fetch"}, t \in {500, 501, 1000}}

WaitingCaptures ==
    {<<ChainEntry("document", 1000, 200)>> \o s \o c \o a :
        s \in WaitingScripts, c \in WaitingSheets, a \in WaitingApis}

NextWaiting ==
    \/ AddFile(WaitingCaptures, {}, SingleFile)
    \/ StartAnalyze
    \/ ParseNextFile
    \/ FinishAnalyze
    \/ ViewTimeline
    \/ Reset

SpecWaiting == Init /\ [][NextWaiting]_vars

\* Pages whose first request is an image, followed by a request that
\* starts before, with or after it, and possibly by a third that starts
\* before both.
SummarySeconds ==
    {ChainEntry("script", s, 100) : s \in {900, 1000, 1100, 1101, 1200}}
    \cup {ChainEntry("xhr", s, 100) : s \in {900, 1000}}
    \cup {ChainEntry("document", 900, 50), ChainEntry("image", 900, 50)}

SummaryThirds ==
    {<<>>, <<ChainEntry("image", 800, 10)>>, <<ChainEntry("stylesheet", 950, 400)>>}

SummaryCaptures ==
    {<<ChainEntry("image", 1000, 50), b>> \o c :
        b \in SummarySeconds, c \in SummaryThirds}

NextSummary ==
    \/ AddFile(SummaryCaptures, {}, SingleFile)
    \/ StartAnalyze
    \/ ParseNextFile
    \/ FinishAnalyze
    \/ ViewTimeline
    \/ Reset

SpecSummary == Init /\ [][NextSummary]_vars

\* Files of one request each, added under their default names and removed
UploadCaptures == {<<[BaseEntry EXCEPT !.time = t]>> : t \in {100, 300, 900}}

NextUploader ==
    \/ AddFile(UploadCaptures, {}, MaxFiles)
    \/ RemoveFile
    \/ StartAnalyze
    \/ ParseNextFile
    \/ FinishAnalyze
    \/ ViewTimeline
    \/ Reset

SpecUploader == Init /\ [][NextUploader]_vars

(***************************************************************************)
(* Properties                                                              *)
(***************************************************************************)
\* Every parsed request, with the raw entry it was parsed from
Positions(regs) ==
    UNION {{<<i, k>> : k \in DOMAIN regs[i].requests} : i \in DOMAIN regs}

ParsedAt == Positions(regions)

RequestAt(p) == regions[p[1]].requests[p[2]]

EntryAt(p) == files[p[1]].content[p[2]]

\* C1: every normalized timing field of every parsed request is >= 0,
\* whether the raw field was negative, zero, positive or missing.
C1_TimingsNonNegative ==
    \A p \in ParsedAt : \A f \in TimingFields : RequestAt(p).timings[f] >= 0

\* A parsed entry with a negative, a missing and a positive raw field
C1_Witness ==
    \E p \in ParsedAt : \E f, g, h \in TimingFields :
        /\ EntryAt(p).timings[f] # <<>> /\ EntryAt(p).timings[f][1] < 0
        /\ EntryAt(p).timings[g] = <<>>
        /\ EntryAt(p).timings[h] # <<>> /\ EntryAt(p).timings[h][1] > 0
        /\ RequestAt(p).timings[f] = 0
        /\ RequestAt(p).timings[h] = EntryAt(p).timings[h][1]

\* The claim's threshold table
ClaimWarning(type) ==
    IF type \in {"xhr", "fetch", "script", "stylesheet", "font"} THEN 500 ELSE 1000

ClaimCritical(type) ==
    IF type \in {"xhr", "fetch"} THEN 1000
    ELSE IF type \in {"script", "stylesheet", "font"} THEN 1500
    ELSE 3000

\* C2: severity boundaries are inclusive for every request type: a duration
\* at or above the type's critical threshold is critical, one at or above
\* the warning threshold and below the critical one is warning, and one
\* below the warning threshold is normal.
C2_SeverityBoundaries ==
    \A p \in ParsedAt :
        LET r == RequestAt(p)
        IN  /\ r.time >= ClaimCritical(r.type) => r.severity = "critical"
            /\ (r.time >= ClaimWarning(r.type) /\ r.time < ClaimCritical(r.type))
                  => r.severity = "warning"
            /\ r.time < ClaimWarning(r.type) => r.severity = "normal"

\* A request exactly on its warning threshold and rated warning
C2_Witness ==
    \E p \in ParsedAt :
        /\ RequestAt(p).type = "font"
        /\ RequestAt(p).time = ClaimWarning("font")
        /\ RequestAt(p).severity = "warning"

EndOf(r) == r.startTime + r.time

C8_StartTimeFromEarliest ==
    \A p \in ParsedAt :
        LET entries  == files[p[1]].content
            earliest == MinOfSet({entries[k].started : k \in DOMAIN entries})
        IN  /\ RequestAt(p).startTime >= 0
            /\ RequestAt(p).startTime = EntryAt(p).started - earliest

(***************************************************************************)
(* Properties of the comparator, stated on the analysed regions            *)
(***************************************************************************)
Analysed == result[1].regions

Comparisons == result[1].comparisons

\* A URL without its query string
Canonical(url) ==
    [path |-> url.path, ext |-> url.ext, query |-> "", inner |-> url.inner]

CanonicalUrls ==
    {Canonical(Analysed[q[1]].requests[q[2]].url) : q \in Positions(Analysed)}

\* The durations of the requests for u in the regions named n
DurationsOf(u, n) ==
    {Analysed[q[1]].requests[q[2]].time :
        q \in {x \in Positions(Analysed) :
                  /\ Analysed[x[1]].name = n
                  /\ Canonical(Analysed[x[1]].requests[x[2]].url) = u}}

NamesWith(u) ==
    {Analysed[i].name : i \in {j \in DOMAIN Analysed : DurationsOf(u, Analysed[j].name) # {}}}

\* The representative (slowest) duration of u per region name
Representatives(u) == {MaxOfSet(DurationsOf(u, n)) : n \in NamesWith(u)}

SpreadOf(u) == MaxOfSet(Representatives(u)) - MinOfSet(Representatives(u))

Included(u) == \E j \in DOMAIN Comparisons : Comparisons[j].url = u

\* C4: every comparison lists at least two regions, all of different
\* names, which are the names of the regions the URL was seen in; a URL
\* seen under one region name only has no comparison.
C4_AtLeastTwoRegions ==
    result # <<>> =>
        /\ \A j \in DOMAIN Comparisons :
              LET c == Comparisons[j]
              IN  /\ Len(c.regions) >= 2
                  /\ \A a, b \in DOMAIN c.regions :
                        a # b => c.regions[a].name # c.regions[b].name
                  /\ {c.regions[a].name : a \in DOMAIN c.regions} = NamesWith(c.url)
        /\ \A u \in CanonicalUrls : Cardinality(NamesWith(u)) < 2 => ~Included(u)

\* Two analysed regions of one name whose durations for a URL are far
\* apart, and no comparison for it
C4_Witness ==
    /\ result # <<>>
    /\ Len(Analysed) = 2
    /\ Analysed[1].name = Analysed[2].name
    /\ \E u \in CanonicalUrls :
          /\ \E a \in DOMAIN Analysed[1].requests, b \in DOMAIN Analysed[2].requests :
                /\ Canonical(Analysed[1].requests[a].url) = u
                /\ Canonical(Analysed[2].requests[b].url) = u
                /\ Analysed[2].requests[b].time - Analysed[1].requests[a].time > 100
          /\ ~Included(u)

\* C5: a URL seen in two or more regions is compared iff its spread is
\* above 100 ms or above half of its smallest representative duration;
\* the comparison's maxDiff is that spread.
C5_InclusionRule ==
    result # <<>> /\ Len(Analysed) >= 2 =>
        /\ \A u \in CanonicalUrls :
              Cardinality(NamesWith(u)) >= 2 =>
                  (Included(u) <=>
                      \/ SpreadOf(u) > 100
                      \/ 2 * SpreadOf(u) > MinOfSet(Representatives(u)))
        /\ \A j \in DOMAIN Comparisons :
              Comparisons[j].maxDiff = SpreadOf(Comparisons[j].url)

\* One URL of spread exactly 100 ms and relative spread 0.5, left out,
\* beside one of spread 101 ms, compared
C5_Witness ==
    /\ result # <<>>
    /\ \E u, w \in CanonicalUrls :
          /\ Cardinality(NamesWith(u)) >= 2
          /\ SpreadOf(u) = 100
          /\ MinOfSet(Representatives(u)) = 200
          /\ ~Included(u)
          /\ Cardinality(NamesWith(w)) >= 2
          /\ SpreadOf(w) = 101
          /\ Included(w)

\* C6: a URL whose smallest representative duration is 0 and whose spread
\* is not above 100 ms is not compared.
C6_ZeroMinimumExcluded ==
    result # <<>> =>
        \A u \in CanonicalUrls :
            (/\ Cardinality(NamesWith(u)) >= 2
             /\ MinOfSet(Representatives(u)) = 0
             /\ SpreadOf(u) <= 100) => ~Included(u)

Recommendations == result[1].recommendations

AnalysedRequests == {Analysed[q[1]].requests[q[2]] : q \in Positions(Analysed)}

\* No request of any region exceeds a per-phase threshold
NoPhaseAbove ==
    \A r \in AnalysedRequests :
        /\ r.timings.dns <= 100
        /\ r.timings.connect <= 200
        /\ r.timings.wait <= 500
        /\ r.timings.receive <= 1000

\* The number of comparisons a region name is the slowest party of
SlowestIn(n) ==
    Cardinality({j \in DOMAIN Comparisons : Comparisons[j].slowestRegion = n})

SomeRegionOftenSlowest ==
    \E i \in DOMAIN Analysed : SlowestIn(Analysed[i].name) >= 3

\* C7 as stated: without a request above a per-phase threshold the
\* recommendation list is empty, whatever the regions and durations.
C7_EmptyWithoutSlowPhase ==
    (result # <<>> /\ NoPhaseAbove) => Recommendations = <<>>

\* C7, amended: without a request above a per-phase threshold the
\* recommendation list is empty exactly when no region is the slowest
\* party of three or more comparisons.
C7_EmptyUnlessRegionDisparity ==
    (result # <<>> /\ NoPhaseAbove) =>
        (Recommendations = <<>> <=> ~SomeRegionOftenSlowest)

\* Two regions, a request waiting exactly 500 ms, a comparison, and no
\* recommendation
C7_Witness ==
    /\ result # <<>>
    /\ NoPhaseAbove
    /\ Len(Analysed) >= 2
    /\ \E r \in AnalysedRequests : r.timings.wait = 500
    /\ Comparisons # <<>>
    /\ ~SomeRegionOftenSlowest
    /\ Recommendations = <<>>

\* The family's metric of a request, and the claim's test on it
MetricOf(category, r) ==
    CASE category = "dns"        -> r.timings.dns
      [] category = "connection" -> r.timings.connect
      [] category = "server"     -> r.timings.wait
      [] category = "payload"    -> r.timings.receive

LimitOf(category) ==
    CASE category = "dns"        -> 100
      [] category = "connection" -> 200
      [] category = "server"     -> 500
      [] category = "payload"    -> 1000

\* The qualifying requests of a family as (url, value, region) rows
QualifyingAt(category) ==
    {q \in Positions(Analysed) :
        MetricOf(category, Analysed[q[1]].requests[q[2]]) > LimitOf(category)}

RowOf(category, q) ==
    [url    |-> Analysed[q[1]].requests[q[2]].url,
     value  |-> MetricOf(category, Analysed[q[1]].requests[q[2]]),
     region |-> Analysed[q[1]].name]

Smaller(a, b) == IF a <= b THEN a ELSE b

\* The rows are qualifying requests, none more often than it qualifies,
\* in descending order of the metric, and none left out is above the last
FamilyRowsRight(rec) ==
    LET Q    == QualifyingAt(rec.category)
        rows == rec.details
        last == rows[Len(rows)].value
    IN  /\ Len(rec.affectedUrls) = Smaller(Cardinality(Q), 50)
        /\ Len(rows) = Len(rec.affectedUrls)
        /\ \A j \in DOMAIN rows : rec.affectedUrls[j] = rows[j].url
        /\ \A j \in DOMAIN rows :
              Cardinality({k \in DOMAIN rows : rows[k] = rows[j]})
                  <= Cardinality({q \in Q : RowOf(rec.category, q) = rows[j]})
        /\ \A j \in 1..(Len(rows) - 1) : rows[j].value >= rows[j + 1].value
        /\ Cardinality({q \in Q : RowOf(rec.category, q).value > last})
              = Cardinality({k \in DOMAIN rows : rows[k].value > last})

\* The region-disparity rows are the first comparisons the region is the
\* slowest party of
RegionRowsRight(rec) ==
    LET mine == SelectSeq(Comparisons,
                          LAMBDA c : c.slowestRegion = rec.stats.region)
    IN  /\ Len(rec.affectedUrls) = Smaller(Len(mine), 50)
        /\ \A j \in DOMAIN rec.affectedUrls : rec.affectedUrls[j] = mine[j].url

\* C9: every recommendation has 1 to 50 affectedUrls; those of the four
\* phase families are the URLs of the qualifying requests of largest
\* metric, in descending order of the metric.
C9_AffectedUrlsBounded ==
    result # <<>> =>
        \A i \in DOMAIN Recommendations :
            LET rec == Recommendations[i]
            IN  /\ Len(rec.affectedUrls) >= 1
                /\ Len(rec.affectedUrls) <= 50
                /\ IF rec.category = "cdn"
                   THEN RegionRowsRight(rec)
                   ELSE FamilyRowsRight(rec)

\* A phase family with more than 50 qualifying requests of different
\* metric values, beside a region-disparity recommendation cut to 50
C9_Witness ==
    /\ result # <<>>
    /\ \E i, k \in DOMAIN Recommendations :
          /\ Recommendations[i].category # "cdn"
          /\ Recommendations[i].stats.count > 50
          /\ Len(Recommendations[i].affectedUrls) = 50
          /\ Recommendations[i].details[1].value
                > Recommendations[i].details[50].value
          /\ Recommendations[k].category = "cdn"
          /\ Recommendations[k].stats.slowCount > 50
          /\ Len(Recommendations[k].affectedUrls) = 50

\* The API requests of the region whose timeline is shown, in the order
\* of their start (equal starts in capture order)
ShownRegion ==
    Analysed[CHOOSE i \in DOMAIN Analysed :
                /\ Analysed[i].name = timeline[1].region
                /\ \A j \in 1..(i - 1) : Analysed[j].name # timeline[1].region]

ShownApi == SelectSeq(ShownRegion.requests,
                      LAMBDA r : r.type = "xhr" \/ r.type = "fetch")

Earlier(api) == IF api[2].startTime < api[1].startTime THEN 2 ELSE 1

Chains == timeline[1].apiChains

\* C10 as stated: of two xhr requests that are the region's only API
\* requests, those starting 40 ms apart form one two-node chain and those
\* starting 60 ms apart form no chain.
C10_StartToStartGap ==
    (timeline # <<>> /\ Len(ShownApi) = 2) =>
        LET a     == ShownApi[Earlier(ShownApi)]
            b     == ShownApi[3 - Earlier(ShownApi)]
            apart == b.startTime - a.startTime
        IN  /\ apart = 40 => (Len(Chains) = 1 /\ Chains[1].chainLength = 2)
            /\ apart = 60 => Chains = <<>>

\* C10, amended: of two xhr requests that are the region's only API
\* requests, the second starting 40 ms after the first ends form one
\* chain of these two nodes, and the second starting 60 ms after the first
\* ends form no chain; in any chain a node starts 0 to 50 ms after the end
\* of the node before it.
C10_EndToStartGap ==
    timeline # <<>> =>
        /\ \A c \in DOMAIN Chains : \A k \in 1..(Len(Chains[c].nodes) - 1) :
              LET gap == Chains[c].nodes[k + 1].startTime - Chains[c].nodes[k].endTime
              IN  gap >= 0 /\ gap <= 50
        /\ Len(ShownApi) = 2 =>
              LET a   == ShownApi[Earlier(ShownApi)]
                  b   == ShownApi[3 - Earlier(ShownApi)]
                  gap == b.startTime - (a.startTime + a.time)
              IN  /\ gap = 40 =>
                        /\ Len(Chains) = 1
                        /\ Chains[1].chainLength = 2
                        /\ Chains[1].nodes[1].request = a
                        /\ Chains[1].nodes[2].request = b
                        /\ Chains[1].nodes[2].dependsOn = <<a.id>>
                  /\ gap = 60 => Chains = <<>>

\* Two xhr requests starting 60 ms apart, the second 40 ms after the end
\* of the first, shown as one chain of two nodes
C10_Witness ==
    /\ timeline # <<>>
    /\ Len(ShownApi) = 2
    /\ ShownApi[1].type = "xhr" /\ ShownApi[2].type = "xhr"
    /\ ShownApi[2].startTime - ShownApi[1].startTime = 60
    /\ ShownApi[2].startTime - (ShownApi[1].startTime + ShownApi[1].time) = 40
    /\ Len(Chains) = 1
    /\ Chains[1].chainLength = 2

\* Two analysed regions a and b, one request each for one URL, a's of
\* 200 ms and b's of 900 ms
ScenarioOf(a, b) ==
    /\ Len(Analysed) = 2
    /\ {a, b} = {1, 2}
    /\ Analysed[a].name # Analysed[b].name
    /\ Len(Analysed[a].requests) = 1
    /\ Len(Analysed[b].requests) = 1
    /\ Canonical(Analysed[a].requests[1].url) = Canonical(Analysed[b].requests[1].url)
    /\ Analysed[a].requests[1].time = 200
    /\ Analysed[b].requests[1].time = 900

HasServerRecommendation(name) ==
    \E i \in DOMAIN Recommendations :
        /\ Recommendations[i].category = "server"
        /\ \E k \in DOMAIN Recommendations[i].affectedRegions :
              Recommendations[i].affectedRegions[k] = name

\* C11: region A with one 200 ms request and region B with one 900 ms
\* request for the same URL give exactly one comparison, of maxDiff 700,
\* slowest B and fastest A, and a 'server' recommendation naming B whenever
\* B's wait phase is above 500 ms.
C11_EndToEndScenario ==
    result # <<>> =>
        \A a, b \in DOMAIN Analysed :
            ScenarioOf(a, b) =>
                /\ Len(Comparisons) = 1
                /\ Comparisons[1].url = Canonical(Analysed[a].requests[1].url)
                /\ Comparisons[1].maxDiff = 700
                /\ Comparisons[1].slowestRegion = Analysed[b].name
                /\ Comparisons[1].fastestRegion = Analysed[a].name
                /\ Analysed[b].requests[1].timings.wait > 500
                      => HasServerRecommendation(Analysed[b].name)

\* The 900 ms region uploaded first, its wait phase 501 ms, and the
\* 'server' recommendation beside the one comparison
C11_Witness ==
    /\ result # <<>>
    /\ ScenarioOf(2, 1)
    /\ Analysed[1].requests[1].timings.wait = 501
    /\ Len(Comparisons) = 1
    /\ HasServerRecommendation(Analysed[1].name)

\* A parsed region of a 200 ms document and a 2000 ms script starting at
\* 210 ms
ScriptScenario(reg) ==
    /\ Len(reg.requests) = 2
    /\ reg.requests[1].type = "document"
    /\ reg.requests[1].time = 200
    /\ reg.requests[2].type = "script"
    /\ reg.requests[2].startTime = 210
    /\ reg.requests[2].time = 2000

HasIssueOf(reg, r, type) ==
    \E k \in DOMAIN reg.issues :
        reg.issues[k].url = r.url /\ reg.issues[k].type = type

NotNormalCount(reg) ==
    Cardinality({k \in DOMAIN reg.requests : reg.requests[k].severity # "normal"})

\* C12 as stated: the scenario's region reports slowRequests = 1, the
\* script as critical, and a slow_download or slow_ttfb issue for it;
\* slowRequests is the number of requests that are not 'normal'.
C12_ScriptAlwaysHasIssue ==
    \A i \in DOMAIN regions :
        /\ regions[i].slowRequests = NotNormalCount(regions[i])
        /\ ScriptScenario(regions[i]) =>
              /\ regions[i].slowRequests = 1
              /\ regions[i].requests[2].severity = "critical"
              /\ \/ HasIssueOf(regions[i], regions[i].requests[2], "slow_download")
                 \/ HasIssueOf(regions[i], regions[i].requests[2], "slow_ttfb")

\* C12, amended: the scenario's region reports slowRequests = 1 and the
\* script as critical; the script has a slow_ttfb issue iff its wait phase
\* is >= 500 ms and a slow_download issue iff its receive phase is
\* >= 1000 ms; slowRequests is the number of requests not 'normal'.
C12_ScriptIssueByPhase ==
    \A i \in DOMAIN regions :
        /\ regions[i].slowRequests = NotNormalCount(regions[i])
        /\ ScriptScenario(regions[i]) =>
              LET script == regions[i].requests[2]
              IN  /\ regions[i].slowRequests = 1
                  /\ script.severity = "critical"
                  /\ HasIssueOf(regions[i], script, "slow_ttfb")
                        <=> script.timings.wait >= 500
                  /\ HasIssueOf(regions[i], script, "slow_download")
                        <=> script.timings.receive >= 1000

\* The scenario with the script waiting 500 ms and receiving 1000 ms:
\* one slow request, critical, with both issues
C12_Witness ==
    \E i \in DOMAIN regions :
        /\ ScriptScenario(regions[i])
        /\ regions[i].requests[2].timings.wait = 500
        /\ regions[i].requests[2].timings.receive = 1000
        /\ regions[i].slowRequests = 1
        /\ regions[i].requests[2].severity = "critical"
        /\ HasIssueOf(regions[i], regions[i].requests[2], "slow_ttfb")
        /\ HasIssueOf(regions[i], regions[i].requests[2], "slow_download")

\* A file that is not JSON or has no entry, or no entry list
Rejected(f) == f.form = "not json" \/ f.form = "no entries" \/ Len(f.content) = 0

\* C13: when handleAnalyze reaches a file that is not JSON or has an empty
\* or absent entry list, no region is produced for it, the error message
\* is set, no result is set and isLoading is false again; and a result,
\* once set, holds one region for every file of the batch, none rejected.
C13_RejectedWhole ==
    [][/\ (/\ pc = "parsing"
           /\ Len(regions) < Len(files)
           /\ Rejected(files[Len(regions) + 1]))
          => /\ regions' = regions
             /\ error' # <<>>
             /\ result' = <<>>
             /\ isLoading' = FALSE
             /\ pc' = "idle"
       /\ result' # <<>> =>
             /\ Len(result'[1].regions) = Len(files')
             /\ \A i \in DOMAIN files' : ~Rejected(files'[i])]_vars

\* A batch of a readable file and then a file that is not JSON, after the
\* analysis: the error shown, no result, not loading
C13_Witness ==
    /\ Len(files) = 2
    /\ ~Rejected(files[1])
    /\ files[2].form = "not json"
    /\ Len(regions) = 1
    /\ pc = "idle"
    /\ error = <<SyntaxMessage>>
    /\ result = <<>>
    /\ isLoading = FALSE

\* What the claim compares of an analysis: its comparisons and its
\* recommendations as sets, the affected regions as a set
ComparisonSetOf(res) ==
    {[url           |-> res.comparisons[j].url,
      maxDiff       |-> res.comparisons[j].maxDiff,
      slowestRegion |-> res.comparisons[j].slowestRegion,
      fastestRegion |-> res.comparisons[j].fastestRegion] :
        j \in DOMAIN res.comparisons}

RecommendationSetOf(res) ==
    {[category        |-> res.recommendations[j].category,
      priority        |-> res.recommendations[j].priority,
      affectedRegions |-> Range(res.recommendations[j].affectedRegions)] :
        j \in DOMAIN res.recommendations}

PermutationsOf(n) ==
    {p \in [1..n -> 1..n] : \A a, b \in 1..n : a # b => p[a] # p[b]}

\* C14: analyzeHarFiles of the same regions in any other order yields the
\* same set of comparisons and the same set of recommendations.
C14_OrderIndependent ==
    result # <<>> =>
        \A p \in PermutationsOf(Len(Analysed)) :
            LET other == analyzeHarFiles([i \in DOMAIN Analysed |-> Analysed[p[i]]])
            IN  /\ ComparisonSetOf(other) = ComparisonSetOf(result[1])
                /\ RecommendationSetOf(other) = RecommendationSetOf(result[1])

ClaimedType(e) ==
    IF e.xrw = <<"xmlhttprequest">> THEN "xhr"
    ELSE IF e.mime \cap {"json", "xml"} # {} THEN "fetch"
    ELSE IF "html" \in e.mime THEN "document"
    ELSE IF "javascript" \in e.mime \/ (e.url.ext = "js" /\ e.url.query = "")
         THEN "script"
    ELSE IF "css" \in e.mime \/ (e.url.ext = "css" /\ e.url.query = "")
         THEN "stylesheet"
    ELSE IF "image" \in e.mime
            \/ e.url.ext \in {"png", "jpg", "jpeg", "gif", "svg", "webp", "ico"}
         THEN "image"
    ELSE IF "font" \in e.mime
            \/ e.url.ext \in {"woff", "woff2", "ttf", "otf", "eot"}
         THEN "font"
    ELSE IF e.mime \cap {"video", "audio"} # {} THEN "media"
    ELSE "other"

\* C16: every parsed request has the type of the first rule its entry
\* matches, in the order xhr, fetch, document, script, stylesheet, image,
\* font, media, other.
C16_FirstMatchingRule ==
    \A p \in ParsedAt : RequestAt(p).type = ClaimedType(EntryAt(p))

\* The issues the claim gives a request of normalized timings t
ClaimedIssues(t) ==
    {x \in {"DNS", "TCP", "SSL", "TTFB", "download", "blocked"} :
        \/ x = "DNS"      /\ t.dns >= 100
        \/ x = "TCP"      /\ t.connect >= 200
        \/ x = "SSL"      /\ t.ssl >= 200
        \/ x = "TTFB"     /\ t.wait >= 500
        \/ x = "download" /\ t.receive >= 1000
        \/ x = "blocked"  /\ t.blocked > 100}

\* C17: a request's issues are, once each, the DNS, TCP, SSL, TTFB,
\* download and blocked issues its normalized timings call for (dns >= 100,
\* connect >= 200, ssl >= 200, wait >= 500, receive >= 1000, blocked > 100),
\* whatever its severity and type.
C17_IssuesFromTimingsOnly ==
    \A p \in ParsedAt :
        LET r == RequestAt(p)
        IN  /\ {r.issues[k].text : k \in DOMAIN r.issues} = ClaimedIssues(r.timings)
            /\ Len(r.issues) = Cardinality(ClaimedIssues(r.timings))

\* A 'normal' request with a DNS issue at exactly 100 ms beside a
\* 'critical' request without any issue
C17_Witness ==
    \E p, q \in ParsedAt :
        /\ RequestAt(p).severity = "normal"
        /\ RequestAt(p).timings.dns = 100
        /\ \E k \in DOMAIN RequestAt(p).issues : RequestAt(p).issues[k].text = "DNS"
        /\ RequestAt(q).severity = "critical"
        /\ RequestAt(q).timings.wait = 499
        /\ RequestAt(q).issues = <<>>

\* The requests for the canonical URL u in the regions named n, as
\* positions in the order they are met (region by region, request by
\* request)
Before(p, q) == p[1] < q[1] \/ (p[1] = q[1] /\ p[2] < q[2])

RequestsFor(u, n) ==
    {q \in Positions(Analysed) :
        /\ Analysed[q[1]].name = n
        /\ Canonical(Analysed[q[1]].requests[q[2]].url) = u}

\* The slowest of them, the first one among equals
SlowestFor(u, n) ==
    CHOOSE q \in RequestsFor(u, n) :
        \A x \in RequestsFor(u, n) :
            \/ Analysed[x[1]].requests[x[2]].time < Analysed[q[1]].requests[q[2]].time
            \/ /\ Analysed[x[1]].requests[x[2]].time = Analysed[q[1]].requests[q[2]].time
               /\ ~Before(x, q)

C19_SortedBySpread ==
    result # <<>> =>
        \A j \in 1..(Len(Comparisons) - 1) :
            Comparisons[j].maxDiff >= Comparisons[j + 1].maxDiff

\* Two comparisons of different spreads, the one of the larger spread
\* first although its URL is met second in every region
C19_Witness ==
    /\ result # <<>>
    /\ Len(Comparisons) = 2
    /\ Comparisons[1].maxDiff > Comparisons[2].maxDiff
    /\ \A i \in DOMAIN Analysed :
          /\ Len(Analysed[i].requests) = 2
          /\ Canonical(Analysed[i].requests[1].url) = Comparisons[2].url
          /\ Canonical(Analysed[i].requests[2].url) = Comparisons[1].url

\* The first place of duration t in a comparison's regions
FirstOfDuration(c, t) ==
    CHOOSE a \in DOMAIN c.regions :
        c.regions[a].time = t /\ \A b \in 1..(a - 1) : c.regions[b].time # t

\* C20: in every comparison the slowest and the fastest region are the
\* first entries of its regions of the greatest and of the smallest
\* duration, maxDiff is the difference of the two durations and positive,
\* and the two regions differ.
C20_SlowestAndFastest ==
    result # <<>> =>
        \A j \in DOMAIN Comparisons :
            LET c       == Comparisons[j]
                times   == {c.regions[a].time : a \in DOMAIN c.regions}
                longest == MaxOfSet(times)
                least   == MinOfSet(times)
            IN  /\ c.slowestRegion = c.regions[FirstOfDuration(c, longest)].name
                /\ c.fastestRegion = c.regions[FirstOfDuration(c, least)].name
                /\ c.maxDiff = longest - least
                /\ c.maxDiff > 0
                /\ c.slowestRegion # c.fastestRegion

\* Three regions, the first two equally fast and the third slower: the
\* first one is named the fastest
C20_Witness ==
    /\ result # <<>>
    /\ Len(Comparisons) = 1
    /\ Len(Comparisons[1].regions) = 3
    /\ Comparisons[1].regions[1].time = Comparisons[1].regions[2].time
    /\ Comparisons[1].regions[3].time > Comparisons[1].regions[1].time
    /\ Comparisons[1].fastestRegion = Comparisons[1].regions[1].name
    /\ Comparisons[1].slowestRegion = Comparisons[1].regions[3].name

\* The escalation threshold the claim names for a family
ClaimEscalation(category) ==
    CASE category = "dns"        -> 300
      [] category = "connection" -> 500
      [] category = "server"     -> 1500
      [] category = "payload"    -> 3000

RecommendationsOf(category) ==
    {i \in DOMAIN Recommendations : Recommendations[i].category = category}

\* C21: each of the DNS, connection, TTFB and download families has one
\* recommendation when a request qualifies for it and none otherwise; its
\* priority is high when the greatest qualifying metric is above the
\* family's escalation threshold and medium otherwise, a metric equal to
\* the threshold included.
C21_FamilyEmittedAndEscalated ==
    result # <<>> =>
        \A category \in {"dns", "connection", "server", "payload"} :
            LET Q     == QualifyingAt(category)
                most  == MaxOfSet({RowOf(category, q).value : q \in Q})
                R     == RecommendationsOf(category)
            IN  /\ Cardinality(R) = (IF Q # {} THEN 1 ELSE 0)
                /\ \A i \in R :
                      Recommendations[i].priority =
                          (IF most > ClaimEscalation(category)
                           THEN "high" ELSE "medium")

\* A family whose greatest metric equals its escalation threshold, with
\* priority medium, and another family escalated to high
C21_Witness ==
    /\ result # <<>>
    /\ \E i, k \in DOMAIN Recommendations :
          /\ Recommendations[i].category # "cdn"
          /\ Recommendations[i].stats.maxTime
                = ClaimEscalation(Recommendations[i].category)
          /\ Recommendations[i].priority = "medium"
          /\ Recommendations[k].category \notin {"cdn", Recommendations[i].category}
          /\ Recommendations[k].priority = "high"

\* C22: there is at most one region-disparity recommendation; there is one
\* exactly when some region is the slowest party of three or more
\* comparisons; its priority is high and it names a single region, one
\* that no other region exceeds in the number of comparisons it is the
\* slowest party of.
C22_SingleRegionDisparity ==
    result # <<>> =>
        LET R == RecommendationsOf("cdn")
        IN  /\ Cardinality(R) <= 1
            /\ R # {} <=> SomeRegionOftenSlowest
            /\ \A i \in R :
                  LET rec == Recommendations[i]
                  IN  /\ rec.priority = "high"
                      /\ Len(rec.affectedRegions) = 1
                      /\ \A k \in DOMAIN Analysed :
                            SlowestIn(rec.affectedRegions[1])
                                >= SlowestIn(Analysed[k].name)

\* Two regions reach three comparisons; the one reported has more, though
\* the other is the slowest party of the first comparison
C22_Witness ==
    /\ result # <<>>
    /\ \E i \in RecommendationsOf("cdn"), k \in DOMAIN Analysed :
          LET named == Recommendations[i].affectedRegions[1]
          IN  /\ Analysed[k].name # named
              /\ SlowestIn(Analysed[k].name) >= 3
              /\ SlowestIn(named) > SlowestIn(Analysed[k].name)
              /\ Comparisons[1].slowestRegion = Analysed[k].name

Milestones == timeline[1].milestones

MilestonesOf(type) == {i \in DOMAIN Milestones : Milestones[i].type = type}

\* The requests of the region shown that have one of the types
ShownOfType(types) ==
    {i \in DOMAIN ShownRegion.requests : ShownRegion.requests[i].type \in types}

\* The end of the region's first document request, 0 without one
HtmlLoadedTime ==
    LET docs == ShownOfType({"document"})
    IN  IF docs = {} THEN 0 ELSE EndOf(ShownRegion.requests[MinOfSet(docs)])

\* C23: html_loaded exists iff the region has a document request,
\* first_api_response iff it has an xhr or fetch request, its time the
\* earliest end among them, critical_resources_done iff it has a document,
\* script, stylesheet, xhr or fetch request, and render_blocking_done iff a
\* script or stylesheet started at or before the html-loaded time (0
\* without a document) plus 100 ms; each exists at most once, whatever the
\* others, and the list is in ascending order of time.
C23_MilestonesIndependent ==
    timeline # <<>> =>
        LET reqs == ShownRegion.requests
            apis == ShownOfType({"xhr", "fetch"})
        IN  /\ \A t \in {"html_loaded", "render_blocking_done",
                         "first_api_response", "critical_resources_done"} :
                   Cardinality(MilestonesOf(t)) <= 1
            /\ MilestonesOf("html_loaded") # {} <=> ShownOfType({"document"}) # {}
            /\ MilestonesOf("first_api_response") # {} <=> apis # {}
            /\ \A i \in MilestonesOf("first_api_response") :
                   Milestones[i].time = MinOfSet({EndOf(reqs[k]) : k \in apis})
            /\ MilestonesOf("critical_resources_done") # {}
                   <=> ShownOfType({"document", "script", "stylesheet",
                                    "xhr", "fetch"}) # {}
            /\ MilestonesOf("render_blocking_done") # {}
                   <=> \E k \in ShownOfType({"script", "stylesheet"}) :
                           reqs[k].startTime <= HtmlLoadedTime + 100
            /\ \A i \in 1..(Len(Milestones) - 1) :
                   Milestones[i].time <= Milestones[i + 1].time

\* A region without a document whose script started at 100 ms exactly:
\* render_blocking_done exists without html_loaded, after the first API
\* response that was detected later
C23_Witness ==
    /\ timeline # <<>>
    /\ MilestonesOf("html_loaded") = {}
    /\ \E k \in ShownOfType({"script"}) : ShownRegion.requests[k].startTime = 100
    /\ \E i \in MilestonesOf("first_api_response"),
          j \in MilestonesOf("render_blocking_done") :
              i < j /\ Milestones[i].time < Milestones[j].time

BlockingResources == timeline[1].blockingResources

\* The impact the claim gives a duration
ClaimedImpact(d) ==
    CASE d >= 500            -> "high"
      [] 200 <= d /\ d < 500 -> "medium"
      [] OTHER               -> "low"

MetBefore(a, b) ==
    \/ a.startTime < b.startTime
    \/ a.startTime = b.startTime /\ a.id[2] < b.id[2]

NodeRequests(c) == {Chains[c].nodes[k].request : k \in DOMAIN Chains[c].nodes}

\* Request q is taken when the chain c picks its node j: q is an earlier
\* node of c, is met before the first node of c, or is a node of a chain
\* whose first node is met before that of c.
TakenAt(c, j, q) ==
    \/ \E k \in 1..(j - 1) : Chains[c].nodes[k].request = q
    \/ MetBefore(q, Chains[c].nodes[1].request)
    \/ \E d \in DOMAIN Chains :
          /\ MetBefore(Chains[d].nodes[1].request, Chains[c].nodes[1].request)
          /\ q \in NodeRequests(d)

\* C25: every chain has more than one node; each node after the first is
\* an xhr or fetch request not taken before that starts 0 to 50 ms after
\* the end of the node before it, and no other such request starts
\* earlier; totalDuration is the last node's end minus the first node's
\* start; the bottleneck is a node of the chain of the greatest request
\* duration; the chains are in non-increasing order of totalDuration.
C25_ChainsWellFormed ==
    timeline # <<>> =>
        /\ \A c \in DOMAIN Chains :
              LET nodes == Chains[c].nodes
              IN  /\ Len(nodes) > 1
                  /\ \A j \in DOMAIN nodes :
                        /\ nodes[j].request \in Range(ShownApi)
                        /\ nodes[j].startTime = nodes[j].request.startTime
                        /\ nodes[j].endTime = EndOf(nodes[j].request)
                  /\ \A j \in 2..Len(nodes) :
                        LET from == nodes[j - 1].endTime
                            Open(q) == /\ ~TakenAt(c, j, q)
                                       /\ q.startTime >= from
                                       /\ q.startTime <= from + 50
                        IN  /\ Open(nodes[j].request)
                            /\ \A q \in Range(ShownApi) :
                                  Open(q) => q.startTime >= nodes[j].startTime
                  /\ Chains[c].totalDuration
                        = nodes[Len(nodes)].endTime - nodes[1].startTime
                  /\ Chains[c].bottleneck \in Range(nodes)
                  /\ \A n \in Range(nodes) :
                        n.request.time <= Chains[c].bottleneck.request.time
        /\ \A c \in 1..(Len(Chains) - 1) :
              Chains[c].totalDuration >= Chains[c + 1].totalDuration

\* Two chains, the longer one listed first though it starts later and its
\* bottleneck is its first node; the other chain's bottleneck is its last
C25_Witness ==
    /\ timeline # <<>>
    /\ Len(Chains) = 2
    /\ Chains[1].totalDuration > Chains[2].totalDuration
    /\ Chains[1].nodes[1].startTime > Chains[2].nodes[1].startTime
    /\ Chains[1].bottleneck = Chains[1].nodes[1]
    /\ Chains[1].nodes[2].request.time < Chains[1].nodes[1].request.time
    /\ Chains[2].bottleneck = Chains[2].nodes[2]

WaitingPeriods == timeline[1].waitingPeriods

\* The waiting periods whose related requests are the request r alone
PeriodsFor(r) ==
    {j \in DOMAIN WaitingPeriods : WaitingPeriods[j].relatedRequests = <<r>>}

\* The severity the claim gives a blocking resource's impact
ClaimedSeverity(impact) ==
    CASE impact = "high"   -> "critical"
      [] impact = "medium" -> "warning"
      [] impact = "low"    -> "normal"

\* C26: the waiting periods are one period for every blocking resource of
\* a duration of 100 ms or more, its severity critical, warning or normal
\* for the impact high, medium or low, and one period for every xhr or
\* fetch request of a duration above 500 ms, its severity that of the
\* request, and no other; they are in non-increasing order of duration.
C26_WaitingPeriods ==
    timeline # <<>> =>
        LET reqs    == ShownRegion.requests
            B       == BlockingResources
            waited  == {i \in DOMAIN B : B[i].blockingDuration >= 100}
            slow    == {k \in ShownOfType({"xhr", "fetch"}) : reqs[k].time > 500}
        IN  /\ Len(WaitingPeriods) = Cardinality(waited) + Cardinality(slow)
            /\ \A i \in waited :
                  /\ Cardinality(PeriodsFor(B[i].request)) = 1
                  /\ \A j \in PeriodsFor(B[i].request) :
                        /\ WaitingPeriods[j].severity = ClaimedSeverity(B[i].impact)
                        /\ WaitingPeriods[j].duration = B[i].blockingDuration
            /\ \A k \in slow :
                  /\ Cardinality(PeriodsFor(reqs[k])) = 1
                  /\ \A j \in PeriodsFor(reqs[k]) :
                        /\ WaitingPeriods[j].severity = reqs[k].severity
                        /\ WaitingPeriods[j].duration = reqs[k].time
            /\ \A j \in 1..(Len(WaitingPeriods) - 1) :
                  WaitingPeriods[j].duration >= WaitingPeriods[j + 1].duration

\* An API call of 501 ms listed before a script of 100 ms, the only two
\* periods of a region that also has a stylesheet of 300 ms that does not
\* block
C26_Witness ==
    /\ timeline # <<>>
    /\ Len(WaitingPeriods) = 2
    /\ WaitingPeriods[1].duration = 501
    /\ WaitingPeriods[1].relatedRequests[1].type \in {"xhr", "fetch"}
    /\ WaitingPeriods[1].severity = "warning"
    /\ WaitingPeriods[2].duration = 100
    /\ WaitingPeriods[2].relatedRequests[1].type = "script"
    /\ WaitingPeriods[2].severity = "normal"
    /\ \E k \in ShownOfType({"stylesheet"}) : ShownRegion.requests[k].time = 300

Summary == timeline[1].summary

\* The least startTime of the region shown
ShownMinimum ==
    MinOfSet({ShownRegion.requests[k].startTime : k \in DOMAIN ShownRegion.requests})

\* The time of the milestone of a type, 0 without one
MilestoneTimeOr0(type) ==
    IF MilestonesOf(type) = {} THEN 0
    ELSE Milestones[CHOOSE i \in MilestonesOf(type) : TRUE].time

\* C27: timeToFirstPaint is the render_blocking_done time, or 0 without
\* that milestone, minus the least startTime of the region's requests, and
\* timeToInteractive is the critical_resources_done time minus the same
\* baseline, whether the least startTime is 0 or not.
C27_SummaryFromMinimum ==
    timeline # <<>> =>
        /\ Summary.timeToFirstPaint
              = MilestoneTimeOr0("render_blocking_done") - ShownMinimum
        /\ MilestonesOf("critical_resources_done") # {} =>
              Summary.timeToInteractive
                  = MilestoneTimeOr0("critical_resources_done") - ShownMinimum

\* C28: when critical_resources_done exists, no milestone has a later time
\* and it is the last milestone of the list; when render_blocking_done
\* exists, timeToInteractive is not less than timeToFirstPaint.
C28_CriticalIsLast ==
    timeline # <<>> =>
        /\ MilestonesOf("critical_resources_done") # {} =>
              /\ Milestones[Len(Milestones)].type = "critical_resources_done"
              /\ \A i \in DOMAIN Milestones :
                    Milestones[i].time <= Milestones[Len(Milestones)].time
        /\ MilestonesOf("render_blocking_done") # {} =>
              Summary.timeToInteractive >= Summary.timeToFirstPaint

\* All four milestones, render_blocking_done at the very time of
\* critical_resources_done and listed before it
C28_Witness ==
    /\ timeline # <<>>
    /\ Len(Milestones) = 4
    /\ Milestones[3].type = "render_blocking_done"
    /\ Milestones[4].type = "critical_resources_done"
    /\ Milestones[3].time = Milestones[4].time
    /\ Summary.timeToInteractive = Summary.timeToFirstPaint
    /\ Milestones[1].time < Milestones[2].time

\* C29: within a chain no request occurs twice, no request is a node of
\* two chains, a chain has no more nodes than the region has xhr and fetch
\* requests, and a request the walk met before a chain's first node (the
\* start of a chain of one node that was dropped, or a node of an earlier
\* chain) is no node of that chain.
C29_ChainsDisjoint ==
    timeline # <<>> =>
        /\ \A c \in DOMAIN Chains :
              LET nodes == Chains[c].nodes
              IN  /\ \A j, k \in DOMAIN nodes :
                        j # k => nodes[j].request.id # nodes[k].request.id
                  /\ Chains[c].chainLength = Len(nodes)
                  /\ Len(nodes) <= Len(ShownApi)
                  /\ \A s \in Range(ShownApi) :
                        MetBefore(s, nodes[1].request) => s \notin NodeRequests(c)
        /\ \A c, d \in DOMAIN Chains :
              c # d => NodeRequests(c) \cap NodeRequests(d) = {}

\* A request that is in no chain, met before the first node of a chain and
\* starting within 50 ms of that node's end
C29_Witness ==
    /\ timeline # <<>>
    /\ \E c \in DOMAIN Chains, s \in Range(ShownApi) :
          /\ MetBefore(s, Chains[c].nodes[1].request)
          /\ \A d \in DOMAIN Chains : s \notin NodeRequests(d)
          /\ s.startTime >= Chains[c].nodes[1].endTime
          /\ s.startTime <= Chains[c].nodes[1].endTime + 50

\* C30: whatever files were added and removed, none renamed, the region
\* names of the files listed are pairwise distinct, and so are the names
\* of the regions parsed from them and the region parts of the request ids
\* of different regions.
C30_DefaultNamesDistinct ==
    /\ \A i, j \in DOMAIN files :
          i # j => files[i].regionName # files[j].regionName
    /\ \A i, j \in DOMAIN regions :
          i # j =>
              /\ regions[i].name # regions[j].name
              /\ \A a \in DOMAIN regions[i].requests, b \in DOMAIN regions[j].requests :
                    regions[i].requests[a].id[1] # regions[j].requests[b].id[1]

====
